---- MODULE Spec2Model ----
(***************************************************************************)
(* A model of the scroll/hover animation glue script (second revision      *)
(* src/jamboree.js, final revision src/script.js; first revision           *)
(* src/unnamed/part_000 where named).  The components below are            *)
(* modelled, each with a specification of its own over one set of          *)
(* variables:                                                              *)
(*   SpecSections  section initialisation, its caches, cleanup, metrics    *)
(*   SpecThrottle  utils.rafThrottle                                       *)
(*   SpecDebounce  utils.debounce                                          *)
(*   SpecBatch     utils.processBatch                                      *)
(*   SpecMenu      the navigation menu of initMenu, all three revisions    *)
(*   SpecRipple    the hover ripple of one button wrapper                  *)
(*   SpecStartup   init's choice of section strategy                       *)
(*   SpecHandlers  splitHeading, splitParagraph and the FAQ handler        *)
(*   SpecBatchLive SpecBatch with the frame callback scheduled fairly      *)
(*   SpecQs        utils.qs and its selector cache                         *)
(*   SpecResize    the debounced resize handler of the global handlers     *)
(*   SpecBoot      page load: the library check, init and the font race    *)
(*   SpecPair      the first and the final menu fed the same events        *)
(***************************************************************************)
EXTENDS Integers, Sequences, FiniteSets, TLC

(***************************************************************************)
(* Bounds of the model.                                                    *)
(***************************************************************************)
NumSections == 3        \* sections carrying data-animation-trigger
MaxInits == 2           \* calls of init()
MaxEntries == 2         \* entries delivered to one observer callback
MaxThrottleCalls == 3   \* calls of the throttled wrapper
MaxFrames == 3          \* animation frames painted
MaxArg == 2             \* distinct argument values passed to a wrapper
MaxDebounceCalls == 3   \* calls of the debounced wrapper
MaxWait == 2            \* largest debounce wait, in ticks
MaxTime == 6            \* ticks of the debounce clock
MaxItems == 4           \* longest list given to processBatch
MaxBatchSize == 3       \* largest batchSize given to processBatch
MaxMenuClicks == 3      \* activations of the menu toggle
MaxMenuKeys == 1        \* keydown events delivered to the document
MaxMenuFrames == 2      \* paints while the menu is watched
MaxRippleEvents == 4    \* pointer events on the button wrapper
MaxCores == 8           \* largest navigator.hardwareConcurrency
MaxHelperCalls == 2     \* text-reveal helper calls of one handler run
MaxFaqItems == 3        \* most accordion items of a FAQ section
MaxQsCalls == 3         \* calls of utils.qs
MaxResizeEvents == 3    \* resize events dispatched
MaxResizeTime == 700    \* last instant of the resize clock, in ms
MaxBootInits == 2       \* init() calls at startup and through the public API
MaxBootTime == 5000     \* last instant of the startup clock, in ms
MaxBootSections == 2    \* sections of a known kind on the page
MaxPairEvents == 3      \* events issued to the two menus run side by side

VARIABLES
    \* ---- environment read by the section code
    revision,        \* "jamboree" (second revision) or "script" (final one)
    lowEnd,          \* utils.isLowEndDevice()
    hasIO,           \* 'IntersectionObserver' in window
    hasBatch,        \* ScrollTrigger.batch is defined
    navPresent,      \* document has a .nav element (with its .menu-button)
    gsapPresent,     \* window.gsap (with ScrollTrigger, SplitText) is loaded
    docClasses,      \* the class list of the document element
    \* ---- section state
    animations,      \* cache.animations / animationCache: section -> timeline
    timelines,       \* every section timeline gsap.timeline() has constructed
    visibility,      \* section.style.visibility
    handlerCalls,    \* how often each section's handler has been invoked
    reattempted,     \* sections attempted again after their initialisation
    observers,       \* the IntersectionObservers constructed, in order
    cacheObservers,  \* cache.observers: a Map, as a set of <<key, value>>
    cacheTimelines,  \* cache.timelines: a Map, as a set of <<key, value>>
    menuTimelines,   \* number of menu timelines gsap.timeline() has constructed
    domCache,        \* utils.domCache: the keys it holds
    triggers,        \* the live ScrollTriggers (ScrollTrigger.getAll())
    listeners,       \* event listeners added, counted per event type
    pendingInits,    \* init() calls whose font/timeout promise has not settled
    initCalls,       \* init() calls made
    initRuns,        \* post-font initialisation bodies run
    lastCall,        \* the most recent operation
    thrown,          \* the exception it raised, or "none"
    metrics,         \* the last report of getPerformanceMetrics()
    \* ---- utils.rafThrottle: one throttled wrapper and the frame queue
    thRevision,      \* "jamboree" (no FPS limiter) or "script"
    thFps,           \* the fps argument
    thRequestId,     \* requestId: Null or the pending request's handle
    thLastTime,      \* lastTime
    rafQueue,        \* frame callbacks requested for the next paint
    rafHandles,      \* handles requestAnimationFrame has returned
    frameTime,       \* timestamp of the latest paint (ms)
    frameNo,         \* paints so far
    callsSincePaint, \* arguments of the wrapper calls since the latest paint
    thCalls,         \* wrapper calls made
    execLog,         \* executions of the throttled callback
    \* ---- utils.debounce: one debounced wrapper and the host timers
    dbRevision,      \* "jamboree" or "script"
    dbImmediate,     \* the immediate argument
    dbWait,          \* the wait argument, in ticks
    dbTimeout,       \* timeout: Null or a timer id
    dbTimers,        \* pending setTimeout timers
    dbNextId,        \* next timer id
    dbNow,           \* the clock
    dbCalls,         \* calls of the wrapper: time and arguments
    dbLog,           \* executions of func
    \* ---- utils.processBatch
    pbItems,         \* items
    pbBatchSize,     \* batchSize
    pbIndex,         \* index
    pbStarted,       \* processBatch has been called
    pbPending,       \* a processNext frame request is pending
    pbVisited,       \* the items processor was called on, in call order
    pbSlices,        \* sizes of the slices processed
    pbRequests,      \* requestAnimationFrame calls made
    \* ---- the navigation menu (initMenu), one .nav with one toggle
    mnRevision,      \* "first" (part_000), "jamboree" or "script"
    mnHasButton,     \* document has a .menu-button element
    mnIsOpen,        \* isOpen (second and final revision)
    mnDataNav,       \* the nav's data-nav attribute, "" if absent
    mnIsOpened,      \* the menu button carries the class is-opened
    mnAria,          \* the menu button's aria-label, "" if absent
    mnDisplay,       \* the nav's display style
    mnTimeline,      \* tl: the kind of transition built, its steps left
    mnRequestId,     \* toggleMenu's requestId: Null or a handle
    mnLastTime,      \* toggleMenu's lastTime
    mnFrameTime,     \* timestamp of the latest paint (ms)
    mnFrames,        \* paints so far
    mnClicks,        \* toggle activations made, in order
    mnEscapes,       \* keydown events delivered
    mnTransitions,   \* transitions (openNav / closeNav bodies) performed
    mnEvent,         \* the latest step of the menu
    \* ---- the hover ripple of one button wrapper
    rpWiring,        \* how the handlers are attached
    rpInside,        \* the pointer is inside the wrapper
    rpInChild,       \* the pointer is over a descendant of the wrapper
    rpEvents,        \* pointer events delivered
    rpDisplay,       \* the clip element's display style
    rpTweens,        \* the active clip-path tweens on the clip element
    rpNextId,        \* serial number of the next tween
    rpLast,          \* the latest step: its type, the tweens it found
    \* ---- the capability descriptor and the strategy selection
    suHardwareConcurrency, \* navigator.hardwareConcurrency
    suReducedMotion, \* CONFIG.mobile.reducedMotion
    suUseIO,         \* CONFIG.performance.useIntersectionObserver
    suIsLowEnd,      \* CONFIG.mobile.isLowEnd
    suInits,         \* init() calls made
    suStarted,       \* per init call, the strategies it started
    \* ---- one handler run on its timeline
    hdRevision,      \* "first", "jamboree" or "script"
    hdReducedMotion, \* CONFIG.mobile.reducedMotion
    hdIsLowEnd,      \* CONFIG.mobile.isLowEnd (final revision)
    hdSteps,         \* the steps added to the timeline, in order
    hdSplitCreates,  \* calls of SplitText.create
    hdSplitTexts,    \* cache.splitTexts: the elements it holds
    hdCalls,         \* text-reveal helper calls made
    hdFaq,           \* the FAQ section handled, if one was
    \* ---- utils.qs and utils.domCache
    qsDom,           \* the page: which region holds a match of which selector
    qsDomCache,      \* utils.domCache: a Map, as a set of <<key, element>>
    qsCalls,         \* calls of utils.qs made
    qsLast,          \* the latest call: its arguments and what it returned
    \* ---- the resize handlers
    rzRevision,      \* "jamboree" or "script"
    rzHandlers,      \* resize handlers registered: one per run of init's body
    rzNow,           \* the clock, in ms
    rzTimers,        \* pending resizeTimer timeouts: [handler, due]
    rzClass,         \* document.body carries is-resizing
    rzDomCache,      \* utils.domCache: the keys it holds
    rzEvents,        \* the times of the resize events so far
    rzRefreshes,     \* the times ScrollTrigger.refresh has run at
    rzClears,        \* the times utils.domCache.clear() has run at
    \* ---- startup: the library check and the wait for the fonts
    btRevision,      \* "first", "jamboree" or "script"
    btGsap,          \* window.gsap is defined
    btHasNav,        \* the document has a .nav element
    btFontsApi,      \* document.fonts is defined
    btSections,      \* sections of a known kind on the page
    btNow,           \* the clock, in ms
    btDomReady,      \* DOMContentLoaded has been dispatched
    btFontsReady,    \* document.fonts.ready has resolved
    btInits,         \* per init() call that reached the race: its progress
    btInitCalls,     \* init() calls made
    btClasses,       \* the class list of the document element
    btLibCalls,      \* calls into the animation library that returned
    btVisible,       \* sections whose visibility has been set
    btSetUp,         \* sections whose animation has been set up
    btThrown,        \* the exceptions raised, in order
    \* ---- the first revision's menu run beside the final revision's
    prFirst,         \* the first revision's menu: data-nav, button, timeline
    prClickTime,     \* the time of the latest toggle activation, in ms
    prEvents,        \* events issued to both menus
    prToggles,       \* toggle activations among them
    prLogFirst,      \* <<data-nav, aria-label>> as the first revision wrote them
    prLogFinal       \* <<data-nav, aria-label>> as the final revision wrote them

varsSections == <<revision, lowEnd, hasIO, hasBatch, navPresent, gsapPresent,
                  docClasses, animations,
                  timelines, visibility, handlerCalls, reattempted, observers,
                  cacheObservers, cacheTimelines, menuTimelines, domCache,
                  triggers, listeners, pendingInits, initCalls, initRuns,
                  lastCall, thrown, metrics>>

varsThrottle == <<thRevision, thFps, thRequestId, thLastTime, rafQueue,
                  rafHandles, frameTime, frameNo, callsSincePaint, thCalls,
                  execLog>>

varsDebounce == <<dbRevision, dbImmediate, dbWait, dbTimeout, dbTimers,
                  dbNextId, dbNow, dbCalls, dbLog>>

varsBatch == <<pbItems, pbBatchSize, pbIndex, pbStarted, pbPending,
               pbVisited, pbSlices, pbRequests>>

varsMenu == <<mnRevision, mnHasButton, mnIsOpen, mnDataNav, mnIsOpened,
              mnAria, mnDisplay, mnTimeline, mnRequestId, mnLastTime,
              mnFrameTime, mnFrames, mnClicks, mnEscapes, mnTransitions,
              mnEvent>>

\* the components added to the four utilities and the section component
varsRipple == <<rpWiring, rpInside, rpInChild, rpEvents, rpDisplay, rpTweens,
                rpNextId, rpLast>>

varsStartup == <<suHardwareConcurrency, suReducedMotion, suUseIO, suIsLowEnd,
                 suInits, suStarted>>

varsHandlers == <<hdRevision, hdReducedMotion, hdIsLowEnd, hdSteps,
                  hdSplitCreates, hdSplitTexts, hdCalls, hdFaq>>

varsQs == <<qsDom, qsDomCache, qsCalls, qsLast>>

varsResize == <<rzRevision, rzHandlers, rzNow, rzTimers, rzClass, rzDomCache,
                rzEvents, rzRefreshes, rzClears>>

varsBoot == <<btRevision, btGsap, btHasNav, btFontsApi, btSections, btNow,
              btDomReady, btFontsReady, btInits, btInitCalls, btClasses,
              btLibCalls, btVisible, btSetUp, btThrown>>

varsPair == <<prFirst, prClickTime, prEvents, prToggles, prLogFirst,
              prLogFinal>>

\* the components added after the menu, ripple, startup and handler ones
varsLate == <<varsQs, varsResize, varsBoot, varsPair>>

\* for each of them, the others
varsBesideQs == <<varsResize, varsBoot, varsPair>>

varsBesideResize == <<varsQs, varsBoot, varsPair>>

varsBesideBoot == <<varsQs, varsResize, varsPair>>

varsBesidePair == <<varsQs, varsResize, varsBoot>>

varsUi == <<varsMenu, varsRipple, varsStartup, varsHandlers, varsLate>>

vars == <<varsSections, varsThrottle, varsDebounce, varsBatch, varsUi>>

Null == 0

(***************************************************************************)
(* The page: section s carries data-animation-trigger = KindOf(s).  "cta"  *)
(* is registered in both revisions, "faq" in the final one only, "promo"   *)
(* in neither.                                                             *)
(***************************************************************************)
Sections == 1..NumSections

PageKinds == <<"cta", "faq", "promo">>

KindOf(s) == PageKinds[((s - 1) % Len(PageKinds)) + 1]

\* jamboree.js initAnimations: the kinds of animationConfigs
RegistryJamboree ==
    {"hero-main", "stacked-content", "image-split", "icons-grid", "cta",
     "footer", "download", "hero-banner", "landingpage-hero"}

\* script.js: the keys of animationMap, the selectors of animationConfigs
RegistryScript ==
    RegistryJamboree \cup {"tabs", "featured-testimonials", "faq"}

Registry(rev) == IF rev = "jamboree" THEN RegistryJamboree ELSE RegistryScript

\* animationMap[trigger] is a function (not undefined)
HasHandler(rev, kind) == kind \in Registry(rev)

\* utils.qsa('[data-animation-trigger="<kind>"]') over all registered kinds
RegisteredSections(rev) == {s \in Sections : KindOf(s) \in Registry(rev)}

NoTimeline == <<>>

\* the timeline gsap.timeline() returns for section s: a fresh object,
\* identified by the section and its serial number among that section's
NewTimeline(tls, s) == <<s, Cardinality({t \in tls : t[1] = s}) + 1>>

\* cache.animations.has(section)
CacheHas_Never(anims, s) == FALSE

CacheHas(anims, s) == anims[s] # NoTimeline

\* Map.set(key, value) on a Map held as a set of pairs
MapSet(m, k, v) == {p \in m : p[1] # k} \cup {<<k, v>>}

MapHas(m, k) == \E p \in m : p[1] = k

RECURSIVE SeqOfSet(_)
\* the elements of a set of sections in document order
SeqOfSet(S) ==
    IF S = {} THEN <<>>
    ELSE LET m == CHOOSE x \in S : \A y \in S : x <= y
         IN <<m>> \o SeqOfSet(S \ {m})

(***************************************************************************)
(* The part of the state one section initialisation reads and writes.      *)
(***************************************************************************)
SecState ==
    [animations |-> animations, timelines |-> timelines,
     visibility |-> visibility, handlerCalls |-> handlerCalls,
     reattempted |-> reattempted,
     observers |-> observers, triggers |-> triggers]

\* visibility = "visible"; timeline = gsap.timeline(..); handler(section,
\* timeline); cache.animations.set(section, timeline)
RevealAndAnimate(st, s) ==
    LET tl == NewTimeline(st.timelines, s)
    IN [st EXCEPT !.visibility[s] = "visible",
                  !.timelines = @ \cup {tl},
                  !.handlerCalls[s] = @ + 1,
                  !.animations[s] = tl]

\* an initialisation attempt on section s; one made on a section that is
\* already in the cache is recorded
Attempt(st, s) ==
    [st EXCEPT !.reattempted =
        IF st.animations[s] # NoTimeline THEN @ \cup {s} ELSE @]

\* one entry of the IntersectionObserver callback of observer o; an
\* intersecting entry is an initialisation attempt
ObserverEntry(st, o, entry) ==
    IF entry.isIntersecting
    THEN IF ~CacheHas(st.animations, entry.target)
         THEN IF HasHandler("script", KindOf(entry.target))
              THEN [RevealAndAnimate(Attempt(st, entry.target), entry.target)
                      EXCEPT !.observers[o].targets = @ \ {entry.target}]
              ELSE Attempt(st, entry.target)
         ELSE Attempt(st, entry.target)
    ELSE st

RECURSIVE ObserverEntries(_, _, _)
\* entries.forEach(entry => ...)
ObserverEntries(st, o, entries) ==
    IF entries = <<>> THEN st
    ELSE ObserverEntries(ObserverEntry(st, o, Head(entries)), o, Tail(entries))

\* one section of a ScrollTrigger.batch onEnter callback
BatchEntry(st, s) ==
    IF CacheHas(st.animations, s) THEN Attempt(st, s)
    ELSE RevealAndAnimate(Attempt(st, s), s)

RECURSIVE BatchEntries(_, _)
\* batch.forEach(section => ...)
BatchEntries(st, batch) ==
    IF batch = <<>> THEN st
    ELSE BatchEntries(BatchEntry(st, Head(batch)), Tail(batch))

\* setupScrollTrigger(section, config) / setupAnimation(section, config):
\* the timeline is constructed with a ScrollTrigger of its own
SetupScrollTrigger(st, s, gen) ==
    IF CacheHas(st.animations, s) THEN Attempt(st, s)
    ELSE [RevealAndAnimate(Attempt(st, s), s)
            EXCEPT !.triggers = @ \cup {[section |-> s, type |-> "timeline",
                                         gen |-> gen]}]

RECURSIVE SetupScrollTriggers(_, _, _)
\* sections.forEach(section => setupScrollTrigger(section, config))
SetupScrollTriggers(st, secs, gen) ==
    IF secs = <<>> THEN st
    ELSE SetupScrollTriggers(SetupScrollTrigger(st, Head(secs), gen),
                             Tail(secs), gen)

\* initIntersectionObserverAnimations: a new observer on every registered
\* section, stored under 'main'
InitIntersectionObserverAnimations(st) ==
    [st EXCEPT !.observers =
        Append(@, [targets |-> RegisteredSections("script")])]

\* initScrollTriggerAnimations
InitScrollTriggerAnimations(st, gen) ==
    IF hasBatch
    THEN [st EXCEPT !.triggers = @ \cup
            {[section |-> s, type |-> "batch", gen |-> gen] :
                s \in RegisteredSections("script")}]
    ELSE SetupScrollTriggers(st, SeqOfSet(RegisteredSections("script")), gen)

\* initSimpleAnimations: every [data-animation-trigger] section is revealed
\* and gets a fade tween with a ScrollTrigger; no timeline, no cache entry
InitSimpleAnimations_Handlers(st, gen) ==
    SetupScrollTriggers(st, SeqOfSet(RegisteredSections("script")), gen)

InitSimpleAnimations(st, gen) ==
    [st EXCEPT !.visibility = [s \in Sections |-> "visible"],
               !.triggers = @ \cup
                 {[section |-> s, type |-> "tween", gen |-> gen] :
                     s \in Sections}]

\* init (final revision): if (utils.isLowEndDevice()) .. else if
\* (CONFIG.performance.useIntersectionObserver) .. else ..
SelectStrategy(low, io) ==
    IF low THEN "simple"
    ELSE IF io THEN "observer"
    ELSE "scrollTrigger"

\* the strategy init() starts
Strategy ==
    IF revision = "jamboree" THEN "scrollTrigger"
    ELSE SelectStrategy(lowEnd, hasIO)

\* jamboree.js initAnimations
InitAnimations(st, gen) ==
    SetupScrollTriggers(st, SeqOfSet(RegisteredSections("jamboree")), gen)

StartStrategy(st, gen) ==
    IF revision = "jamboree" THEN InitAnimations(st, gen)
    ELSE IF Strategy = "simple" THEN InitSimpleAnimations(st, gen)
    ELSE IF Strategy = "observer" THEN InitIntersectionObserverAnimations(st)
    ELSE InitScrollTriggerAnimations(st, gen)

(***************************************************************************)
(* JavaScript values of the metrics report: a WeakMap has neither a size   *)
(* property nor a clear method.                                            *)
(***************************************************************************)
Undefined == <<"undefined">>

Num(n) == <<"number", n>>

\* cache.animations.size, cache.animations being a WeakMap
WeakMapSize(anims) == Undefined

\* typeof cache.animations.clear === "function"
WeakMapHasClear == FALSE

NoReport ==
    [animationCount |-> <<>>, timelineCount |-> <<>>,
     observerCount |-> <<>>, domCacheSize |-> <<>>]

\* WebflowAnimations.getPerformanceMetrics()
getPerformanceMetrics ==
    [animationCount |-> WeakMapSize(animations),
     timelineCount |-> Num(Cardinality(cacheTimelines)),
     observerCount |-> Num(Cardinality(cacheObservers)),
     domCacheSize |-> Num(Cardinality(domCache))]

(***************************************************************************)
(* Actions of the section component.                                       *)
(***************************************************************************)
SetSecState(st) ==
    /\ animations' = st.animations
    /\ timelines' = st.timelines
    /\ visibility' = st.visibility
    /\ handlerCalls' = st.handlerCalls
    /\ reattempted' = st.reattempted
    /\ observers' = st.observers
    /\ triggers' = st.triggers

Returns(call, exc) ==
    /\ lastCall' = call
    /\ thrown' = exc
    /\ metrics' = NoReport

\* typeof window.gsap === "undefined"
GsapMissing_Never(present) == FALSE

GsapMissing(present) == ~present

\* init(): without the library the document element is flagged and init
\* returns; with it the body is deferred to the promise
InitCall ==
    /\ UNCHANGED <<varsThrottle, varsDebounce, varsBatch, varsUi>>
    /\ initCalls < MaxInits
    /\ initCalls' = initCalls + 1
    /\ IF GsapMissing(gsapPresent)
       THEN /\ docClasses' = docClasses \cup {"gsap-not-found"}
            /\ UNCHANGED pendingInits
       ELSE /\ pendingInits' = pendingInits + 1
            /\ UNCHANGED docClasses
    /\ Returns("init", "none")
    /\ UNCHANGED <<revision, lowEnd, hasIO, hasBatch, navPresent, gsapPresent,
                   animations, timelines, visibility, handlerCalls,
                   reattempted, observers, cacheObservers, cacheTimelines,
                   menuTimelines, domCache, triggers, listeners, initRuns>>

\* initMenu, as far as the caches go: the .nav and .menu-button lookups are
\* cached, the menu timeline is taken from cache.timelines or constructed
InitMenuCaches ==
    IF ~navPresent
    THEN UNCHANGED <<cacheTimelines, menuTimelines, domCache>>
    ELSE IF revision = "jamboree"
    THEN /\ menuTimelines' = menuTimelines + 1
         /\ UNCHANGED <<cacheTimelines, domCache>>
    ELSE /\ domCache' = domCache \cup {"doc-.nav", "doc-.menu-button"}
         /\ IF MapHas(cacheTimelines, "menu")
            THEN UNCHANGED <<cacheTimelines, menuTimelines>>
            ELSE /\ menuTimelines' = menuTimelines + 1
                 /\ cacheTimelines' =
                        MapSet(cacheTimelines, "menu", menuTimelines + 1)

EventTypes ==
    {"mouseenter", "mouseleave", "click", "keydown", "resize", "beforeunload"}

\* the page has [data-btn='wrap'] elements, one [data-menu-toggle] element
\* and no jQuery: the buttons are wired by delegation on the document
PageHasButtonWraps == TRUE

PageHasJQuery == FALSE

\* the listeners one run of the init body adds: the delegated button
\* listeners (initVanillaButtons / initButtons), the toggle click and the
\* keydown listener of initMenu, the resize listener, and in the final
\* revision the beforeunload listener of setupGlobalHandlers
ListenersAdded(ev) ==
    CASE ev \in {"mouseenter", "mouseleave"} ->
            IF PageHasButtonWraps /\ ~PageHasJQuery THEN 1 ELSE 0
      [] ev \in {"click", "keydown"} -> IF navPresent THEN 1 ELSE 0
      [] ev = "resize" -> 1
      [] ev = "beforeunload" -> IF revision = "script" THEN 1 ELSE 0

\* the callback of Promise.race([fontsReady, timeout])
InitBody ==
    /\ UNCHANGED <<varsThrottle, varsDebounce, varsBatch, varsUi>>
    /\ UNCHANGED docClasses
    /\ pendingInits > 0
    /\ pendingInits' = pendingInits - 1
    /\ initRuns' = initRuns + 1
    /\ InitMenuCaches
    /\ listeners' = [ev \in EventTypes |-> listeners[ev] + ListenersAdded(ev)]
    /\ LET st == StartStrategy(SecState, initRuns + 1)
       IN /\ SetSecState(st)
          /\ cacheObservers' =
                IF Strategy = "observer"
                THEN MapSet(cacheObservers, "main", Len(st.observers))
                ELSE cacheObservers
    /\ Returns("initBody", "none")
    /\ UNCHANGED <<revision, lowEnd, hasIO, hasBatch, navPresent, gsapPresent,
                   initCalls>>

\* the IntersectionObserver callback of observer o
IntersectionCallback(o, entries) ==
    /\ UNCHANGED <<varsThrottle, varsDebounce, varsBatch, varsUi>>
    /\ UNCHANGED docClasses
    /\ SetSecState(ObserverEntries(SecState, o, entries))
    /\ Returns("observer", "none")
    /\ UNCHANGED <<revision, lowEnd, hasIO, hasBatch, navPresent, gsapPresent,
                   cacheObservers, cacheTimelines, menuTimelines, domCache,
                   listeners, pendingInits, initCalls, initRuns>>

\* the entry lists an observer can deliver: entries of targets it observes
EntryLists(o) ==
    LET E == [target : observers[o].targets, isIntersecting : BOOLEAN]
    IN UNION {[1..n -> E] : n \in 1..MaxEntries}

\* onEnter of the ScrollTrigger.batch of one init run and kind: the batch is
\* a group of its elements that entered; once: true kills their triggers
BatchOnEnter(gen, kind, batch) ==
    /\ UNCHANGED <<varsThrottle, varsDebounce, varsBatch, varsUi>>
    /\ UNCHANGED docClasses
    /\ batch # {}
    /\ \A s \in batch :
          /\ KindOf(s) = kind
          /\ [section |-> s, type |-> "batch", gen |-> gen] \in triggers
    /\ LET st == BatchEntries(SecState, SeqOfSet(batch))
       IN SetSecState([st EXCEPT !.triggers = @ \
            {[section |-> s, type |-> "batch", gen |-> gen] : s \in batch}])
    /\ Returns("batchEnter", "none")
    /\ UNCHANGED <<revision, lowEnd, hasIO, hasBatch, navPresent, gsapPresent,
                   cacheObservers, cacheTimelines, menuTimelines, domCache,
                   listeners, pendingInits, initCalls, initRuns>>

\* a timeline's or tween's own ScrollTrigger fires: once: true kills it
TriggerEnter(t) ==
    /\ UNCHANGED <<varsThrottle, varsDebounce, varsBatch, varsUi>>
    /\ UNCHANGED docClasses
    /\ t \in triggers
    /\ t.type # "batch"
    /\ triggers' = triggers \ {t}
    /\ Returns("triggerEnter", "none")
    /\ UNCHANGED <<revision, lowEnd, hasIO, hasBatch, navPresent, gsapPresent,
                   animations, timelines, visibility, handlerCalls,
                   reattempted, observers, cacheObservers, cacheTimelines,
                   menuTimelines, domCache, listeners, pendingInits, initCalls,
                   initRuns>>

\* WebflowAnimations.cleanup / window.cleanupAnimations: the triggers are
\* killed, then cache.animations.clear() is called on a WeakMap.  Without
\* the library the call fails at ScrollTrigger if that global is undefined
\* too, and at clear() otherwise
Cleanup ==
    /\ UNCHANGED <<varsThrottle, varsDebounce, varsBatch, varsUi>>
    /\ UNCHANGED docClasses
    /\ triggers' = {}
    /\ IF ~gsapPresent
       THEN /\ \E exc \in {"ReferenceError", "TypeError"} :
                  Returns("cleanup", exc)
            /\ UNCHANGED <<animations, cacheTimelines, observers,
                           cacheObservers, domCache>>
       ELSE IF WeakMapHasClear
       THEN /\ animations' = [s \in Sections |-> NoTimeline]
            /\ IF revision = "script"
               THEN /\ cacheTimelines' = {}
                    /\ observers' = [o \in DOMAIN observers |->
                                        [targets |-> {}]]
                    /\ cacheObservers' = {}
                    /\ domCache' = {}
               ELSE UNCHANGED <<cacheTimelines, observers, cacheObservers,
                                domCache>>
            /\ Returns("cleanup", "none")
       ELSE /\ Returns("cleanup", "TypeError")
            /\ UNCHANGED <<animations, cacheTimelines, observers,
                           cacheObservers, domCache>>
    /\ UNCHANGED <<revision, lowEnd, hasIO, hasBatch, navPresent, gsapPresent,
                   timelines, visibility, handlerCalls, reattempted,
                   menuTimelines, listeners, pendingInits, initCalls,
                   initRuns>>

\* WebflowAnimations.getPerformanceMetrics()
GetMetrics ==
    /\ UNCHANGED <<varsThrottle, varsDebounce, varsBatch, varsUi>>
    /\ UNCHANGED docClasses
    /\ revision = "script"
    /\ lastCall' = "metrics"
    /\ thrown' = "none"
    /\ metrics' = getPerformanceMetrics
    /\ UNCHANGED <<revision, lowEnd, hasIO, hasBatch, navPresent, gsapPresent,
                   animations, timelines, visibility, handlerCalls,
                   reattempted, observers, cacheObservers, cacheTimelines,
                   menuTimelines, domCache, triggers, listeners, pendingInits,
                   initCalls, initRuns>>

IdleSections ==
    /\ revision = "script"
    /\ lowEnd = FALSE
    /\ hasIO = TRUE
    /\ hasBatch = TRUE
    /\ navPresent = TRUE
    /\ gsapPresent = TRUE
    /\ docClasses = {}
    /\ animations = [s \in Sections |-> NoTimeline]
    /\ timelines = {}
    /\ visibility = [s \in Sections |-> ""]
    /\ handlerCalls = [s \in Sections |-> 0]
    /\ reattempted = {}
    /\ observers = <<>>
    /\ cacheObservers = {}
    /\ cacheTimelines = {}
    /\ menuTimelines = 0
    /\ domCache = {}
    /\ triggers = {}
    /\ listeners = [ev \in EventTypes |-> 0]
    /\ pendingInits = 0
    /\ initCalls = 0
    /\ initRuns = 0
    /\ lastCall = "none"
    /\ thrown = "none"
    /\ metrics = NoReport

\* lowEnd, hasIO and hasBatch are read by the final revision only
InitSectionsState ==
    /\ revision \in {"jamboree", "script"}
    /\ lowEnd \in IF revision = "script" THEN BOOLEAN ELSE {FALSE}
    /\ hasIO \in IF revision = "script" THEN BOOLEAN ELSE {FALSE}
    /\ hasBatch \in IF revision = "script" THEN BOOLEAN ELSE {FALSE}
    /\ navPresent \in BOOLEAN
    /\ gsapPresent \in BOOLEAN
    /\ docClasses = {}
    /\ animations = [s \in Sections |-> NoTimeline]
    /\ timelines = {}
    /\ visibility = [s \in Sections |-> ""]
    /\ handlerCalls = [s \in Sections |-> 0]
    /\ reattempted = {}
    /\ observers = <<>>
    /\ cacheObservers = {}
    /\ cacheTimelines = {}
    /\ menuTimelines = 0
    /\ domCache = {}
    /\ triggers = {}
    /\ listeners = [ev \in EventTypes |-> 0]
    /\ pendingInits = 0
    /\ initCalls = 0
    /\ initRuns = 0
    /\ lastCall = "none"
    /\ thrown = "none"
    /\ metrics = NoReport

NextSections ==
    \/ InitCall
    \/ InitBody
    \/ \E o \in DOMAIN observers :
          \E entries \in EntryLists(o) : IntersectionCallback(o, entries)
    \/ \E gen \in 1..MaxInits, s0 \in Sections :
          \E batch \in SUBSET Sections :
             BatchOnEnter(gen, KindOf(s0), batch)
    \/ \E t \in triggers : TriggerEnter(t)
    \/ Cleanup
    \/ GetMetrics

(***************************************************************************)
(* utils.rafThrottle.  Time is in milliseconds; a paint hands its          *)
(* timestamp to every frame callback requested since the previous paint.   *)
(***************************************************************************)
Args == 1..MaxArg

\* milliseconds between two paints
FrameDeltas == {8, 17, 34}

\* the fps values the wrapper is built with: the default and the menu's
FpsValues == {60, 30}

\* if (requestId === null)
ShouldRequest_Always(requestId) == TRUE

ShouldRequest(requestId) == requestId = Null

\* currentTime - lastTime >= interval, with interval = 1000 / fps
IntervalElapsed_Always(currentTime, lastTime, fps) == TRUE

IntervalElapsed(currentTime, lastTime, fps) ==
    (currentTime - lastTime) * fps >= 1000

\* the arguments the frame callback passes on: those of the call that made
\* the request (the closure's args)
CallbackArgs(request, calls) == request.args

ThrottleState ==
    [requestId |-> thRequestId, lastTime |-> thLastTime, execLog |-> execLog]

\* the frame callback of one request, run at a paint with timestamp
\* currentTime
RafCallback(st, request, currentTime, frame, calls) ==
    IF thRevision = "jamboree"
       \/ IntervalElapsed(currentTime, st.lastTime, thFps)
    THEN [requestId |-> Null,
          lastTime |-> IF thRevision = "jamboree" THEN st.lastTime
                       ELSE currentTime,
          execLog |-> Append(st.execLog,
                        [frame |-> frame, time |-> currentTime,
                         args |-> CallbackArgs(request, calls),
                         requestedIn |-> request.requestedIn,
                         coalesced |-> Len(calls),
                         latestArgs |-> calls[Len(calls)]])]
    ELSE [st EXCEPT !.requestId = Null]

RECURSIVE RunFrameCallbacks(_, _, _, _, _)
\* the host runs the frame callbacks in request order
RunFrameCallbacks(st, queue, currentTime, frame, calls) ==
    IF queue = <<>> THEN st
    ELSE RunFrameCallbacks(
            RafCallback(st, Head(queue), currentTime, frame, calls),
            Tail(queue), currentTime, frame, calls)

\* a call of the wrapper rafThrottle returned, with argument a
ThrottledCall(a) ==
    /\ thCalls < MaxThrottleCalls
    /\ thCalls' = thCalls + 1
    /\ callsSincePaint' = Append(callsSincePaint, a)
    /\ IF ShouldRequest(thRequestId)
       THEN /\ rafHandles' = rafHandles + 1
            /\ thRequestId' = rafHandles + 1
            /\ rafQueue' = Append(rafQueue,
                              [handle |-> rafHandles + 1, args |-> a,
                               requestedIn |-> frameNo])
       ELSE UNCHANGED <<rafHandles, thRequestId, rafQueue>>
    /\ UNCHANGED <<thRevision, thFps, thLastTime, frameTime, frameNo, execLog>>
    /\ UNCHANGED <<varsSections, varsDebounce, varsBatch, varsUi>>

\* the next paint, delta milliseconds after the previous one
Frame(delta) ==
    /\ frameNo < MaxFrames
    /\ frameNo' = frameNo + 1
    /\ frameTime' = frameTime + delta
    /\ LET st == RunFrameCallbacks(ThrottleState, rafQueue, frameTime + delta,
                                   frameNo + 1, callsSincePaint)
       IN /\ thRequestId' = st.requestId
          /\ thLastTime' = st.lastTime
          /\ execLog' = st.execLog
    /\ rafQueue' = <<>>
    /\ callsSincePaint' = <<>>
    /\ UNCHANGED <<thRevision, thFps, rafHandles, thCalls>>
    /\ UNCHANGED <<varsSections, varsDebounce, varsBatch, varsUi>>

IdleThrottle ==
    /\ thRevision = "script"
    /\ thFps = 30
    /\ thRequestId = Null
    /\ thLastTime = 0
    /\ rafQueue = <<>>
    /\ rafHandles = 0
    /\ frameTime = 0
    /\ frameNo = 0
    /\ callsSincePaint = <<>>
    /\ thCalls = 0
    /\ execLog = <<>>

InitThrottleState ==
    /\ thRevision \in {"jamboree", "script"}
    /\ thFps \in FpsValues
    /\ thRequestId = Null
    /\ thLastTime = 0
    /\ rafQueue = <<>>
    /\ rafHandles = 0
    /\ frameTime = 0
    /\ frameNo = 0
    /\ callsSincePaint = <<>>
    /\ thCalls = 0
    /\ execLog = <<>>

NextThrottle ==
    \/ \E a \in Args : ThrottledCall(a)
    \/ \E delta \in FrameDeltas : Frame(delta)

(***************************************************************************)
(* utils.debounce.  The clock counts ticks.  Host timers are punctual: a   *)
(* timer runs at its due time, before the clock moves on and before any    *)
(* call made at that time.                                                 *)
(***************************************************************************)
\* clearTimeout(id): an unknown, null or undefined id is ignored
ClearTimeout_Noop(timers, id) == timers

ClearTimeout(timers, id) == {tm \in timers : tm.id # id}

TimerDue == \E tm \in dbTimers : tm.due <= dbNow

\* a call of the wrapper debounce returned, with argument a
DebouncedCall(a) ==
    /\ Len(dbCalls) < MaxDebounceCalls
    /\ ~TimerDue
    /\ dbCalls' = Append(dbCalls, [time |-> dbNow, args |-> a])
    /\ LET callNow == dbImmediate /\ dbTimeout = Null
       IN /\ dbTimers' = ClearTimeout(dbTimers, dbTimeout) \cup
                            {[id |-> dbNextId, due |-> dbNow + dbWait,
                              args |-> a]}
          /\ dbTimeout' = dbNextId
          /\ dbNextId' = dbNextId + 1
          /\ dbLog' = IF callNow
                      THEN Append(dbLog, [time |-> dbNow, args |-> a,
                                          call |-> Len(dbCalls) + 1,
                                          edge |-> "leading"])
                      ELSE dbLog
    /\ UNCHANGED <<dbRevision, dbImmediate, dbWait, dbNow>>
    /\ UNCHANGED <<varsSections, varsThrottle, varsBatch, varsUi>>

\* the host runs the timer callback `later` of timer tm
TimerFire(tm) ==
    /\ tm \in dbTimers
    /\ tm.due <= dbNow
    /\ IF dbRevision = "script"
       THEN /\ dbTimeout' = Null
            /\ dbTimers' = dbTimers \ {tm}
       ELSE /\ dbTimeout' = dbTimeout
            /\ dbTimers' = ClearTimeout(dbTimers \ {tm}, dbTimeout)
    /\ dbLog' = IF ~dbImmediate
                THEN Append(dbLog, [time |-> dbNow, args |-> tm.args,
                                    call |-> tm.id, edge |-> "trailing"])
                ELSE dbLog
    /\ UNCHANGED <<dbRevision, dbImmediate, dbWait, dbNextId, dbNow, dbCalls>>
    /\ UNCHANGED <<varsSections, varsThrottle, varsBatch, varsUi>>

\* one tick of the clock
DbTick ==
    /\ dbNow < MaxTime
    /\ ~TimerDue
    /\ dbNow' = dbNow + 1
    /\ UNCHANGED <<dbRevision, dbImmediate, dbWait, dbTimeout, dbTimers,
                   dbNextId, dbCalls, dbLog>>
    /\ UNCHANGED <<varsSections, varsThrottle, varsBatch, varsUi>>

IdleDebounce ==
    /\ dbRevision = "script"
    /\ dbImmediate = FALSE
    /\ dbWait = 1
    /\ dbTimeout = Null
    /\ dbTimers = {}
    /\ dbNextId = 1
    /\ dbNow = 0
    /\ dbCalls = <<>>
    /\ dbLog = <<>>

InitDebounceState ==
    /\ dbRevision \in {"jamboree", "script"}
    /\ dbImmediate \in BOOLEAN
    /\ dbRevision = "jamboree" => ~dbImmediate
    /\ dbWait \in 1..MaxWait
    /\ dbTimeout = Null
    /\ dbTimers = {}
    /\ dbNextId = 1
    /\ dbNow = 0
    /\ dbCalls = <<>>
    /\ dbLog = <<>>

NextDebounce ==
    \/ \E a \in Args : DebouncedCall(a)
    \/ \E tm \in dbTimers : TimerFire(tm)
    \/ DbTick

(***************************************************************************)
(* utils.processBatch.                                                     *)
(***************************************************************************)
ItemValues == {"a", "b"}

Min(a, b) == IF a < b THEN a ELSE b

\* items.slice(start, end): 0-based, end exclusive, clamped to the length
Slice_EndInclusive(items, start, end) ==
    SubSeq(items, Min(start, Len(items)) + 1, Min(end + 1, Len(items)))

Slice(items, start, end) ==
    SubSeq(items, Min(start, Len(items)) + 1, Min(end, Len(items)))

\* index += batchSize
NextIndex_Overlap(index, batchSize) == index + batchSize - 1

NextIndex(index, batchSize) == index + batchSize

\* processNext(): one slice, then a frame request if items remain
ProcessNext ==
    LET batch == Slice(pbItems, pbIndex, pbIndex + pbBatchSize)
        index == NextIndex(pbIndex, pbBatchSize)
    IN /\ pbVisited' = pbVisited \o batch
       /\ pbSlices' = Append(pbSlices, Len(batch))
       /\ pbIndex' = index
       /\ IF index < Len(pbItems)
          THEN /\ pbPending' = TRUE
               /\ pbRequests' = pbRequests + 1
          ELSE /\ pbPending' = FALSE
               /\ pbRequests' = pbRequests

\* utils.processBatch(items, processor, batchSize)
ProcessBatchCall ==
    /\ ~pbStarted
    /\ pbStarted' = TRUE
    /\ IF Len(pbItems) > 0
       THEN ProcessNext
       ELSE UNCHANGED <<pbVisited, pbSlices, pbIndex, pbPending, pbRequests>>
    /\ UNCHANGED <<pbItems, pbBatchSize>>
    /\ UNCHANGED <<varsSections, varsThrottle, varsDebounce, varsUi>>

\* the frame callback processNext
ProcessNextFrame ==
    /\ pbPending
    /\ ProcessNext
    /\ UNCHANGED <<pbItems, pbBatchSize, pbStarted>>
    /\ UNCHANGED <<varsSections, varsThrottle, varsDebounce, varsUi>>

IdleBatch ==
    /\ pbItems = <<>>
    /\ pbBatchSize = 1
    /\ pbIndex = 0
    /\ pbStarted = FALSE
    /\ pbPending = FALSE
    /\ pbVisited = <<>>
    /\ pbSlices = <<>>
    /\ pbRequests = 0

InitBatchState ==
    /\ pbItems \in UNION {[1..n -> ItemValues] : n \in 0..MaxItems}
    /\ pbBatchSize \in 1..MaxBatchSize
    /\ pbIndex = 0
    /\ pbStarted = FALSE
    /\ pbPending = FALSE
    /\ pbVisited = <<>>
    /\ pbSlices = <<>>
    /\ pbRequests = 0

NextBatch ==
    \/ ProcessBatchCall
    \/ ProcessNextFrame

(***************************************************************************)
(* The navigation menu.  One run of initMenu on a page with one .nav and   *)
(* one [data-menu-toggle] control.  The first revision derives the state   *)
(* from the data-nav attribute and toggles synchronously in the click      *)
(* handler; the second and final revisions keep isOpen and run the toggle  *)
(* in the frame callback of utils.rafThrottle (30 fps in the final one).   *)
(* The transition timeline tl is held as the steps it has still to play:   *)
(* gsap plays them in order once built, tl.clear() drops them.             *)
(***************************************************************************)
MenuRevisions == {"first", "jamboree", "script"}

\* the fps argument of toggleMenu's rafThrottle
MenuFps == 30

EmptyTimeline == [kind |-> "none", steps |-> <<>>]

\* tl.clear().set(navWrap, {display: "block"}) ... .fromTo(...)
OpenTimeline == [kind |-> "open", steps |-> <<"displayBlock", "reveal">>]

\* tl.clear().to(overlay, ...) ... .set(navWrap, {display: "none"})
CloseTimeline == [kind |-> "close", steps |-> <<"conceal", "displayNone">>]

\* the state of the menu: open or closed
MenuIsOpen ==
    IF mnRevision = "first" THEN mnDataNav = "open" ELSE mnIsOpen

MenuRec ==
    [isOpen |-> mnIsOpen, dataNav |-> mnDataNav, isOpened |-> mnIsOpened,
     aria |-> mnAria, timeline |-> mnTimeline, transitions |-> mnTransitions]

\* the aria-label a transition gives the menu button
AriaLabel_Stale(open) == "Open menu"

AriaLabel(open) == IF open THEN "Close menu" ELSE "Open menu"

\* menuButton?.classList.add / remove("is-opened");
\* menuButton?.setAttribute("aria-label", ...)
SetButton(m, open) ==
    IF mnHasButton
    THEN [m EXCEPT !.isOpened = open, !.aria = AriaLabel(open)]
    ELSE m

\* openNav (second and final revision)
openNav_NoClear(m) ==
    IF m.isOpen THEN m
    ELSE SetButton([m EXCEPT !.isOpen = TRUE,
                             !.dataNav = "open",
                             !.timeline = [kind |-> "open",
                                           steps |-> @.steps \o
                                                     OpenTimeline.steps],
                             !.transitions = @ + 1], TRUE)

openNav(m) ==
    IF m.isOpen THEN m
    ELSE SetButton([m EXCEPT !.isOpen = TRUE,
                             !.dataNav = "open",
                             !.timeline = OpenTimeline,
                             !.transitions = @ + 1], TRUE)

\* closeNav (second and final revision)
closeNav(m) ==
    IF ~m.isOpen THEN m
    ELSE SetButton([m EXCEPT !.isOpen = FALSE,
                             !.dataNav = "closed",
                             !.timeline = CloseTimeline,
                             !.transitions = @ + 1], FALSE)

\* the callback toggleMenu throttles: isOpen ? closeNav() : openNav()
ToggleBody(m) == IF m.isOpen THEN closeNav(m) ELSE openNav(m)

\* closeMenu (first revision)
closeMenu(m) ==
    SetButton([m EXCEPT !.dataNav = "closed",
                        !.timeline = CloseTimeline,
                        !.transitions = @ + 1], FALSE)

\* the toggle's click handler (first revision)
ToggleClickFirst(m) ==
    IF m.dataNav = "open" THEN closeMenu(m)
    ELSE SetButton([m EXCEPT !.dataNav = "open",
                             !.timeline = OpenTimeline,
                             !.transitions = @ + 1], TRUE)

\* e.key === "Escape" && isOpen
\* e.key === "Escape" && nav.getAttribute("data-nav") === "open"
EscapeCloses_AnyState(key, open) == key = "Escape"

EscapeCloses(key, open) == key = "Escape" /\ open

\* the document's keydown listener
KeydownHandler(m, key) ==
    IF mnRevision = "first"
    THEN IF EscapeCloses(key, m.dataNav = "open") THEN closeMenu(m) ELSE m
    ELSE IF EscapeCloses(key, m.isOpen) THEN closeNav(m) ELSE m

Keys == {"Escape", "Enter"}

\* milliseconds between two paints while the menu is watched: less than,
\* and more than, the throttle interval of 1000 / 30 ms
MenuFrameDeltas == {17, 34}

SetMenuRec(m) ==
    /\ mnIsOpen' = m.isOpen
    /\ mnDataNav' = m.dataNav
    /\ mnIsOpened' = m.isOpened
    /\ mnAria' = m.aria
    /\ mnTimeline' = m.timeline
    /\ mnTransitions' = m.transitions

MenuEvent(type, key) ==
    [type |-> type, key |-> key, wasOpen |-> MenuIsOpen]

\* a click on the toggle control.  The record kept of it: the state it
\* found, whether a transition was still playing, whether a frame request
\* of toggleMenu was pending
MenuClick ==
    /\ Len(mnClicks) < MaxMenuClicks
    /\ mnClicks' = Append(mnClicks,
                     [wasOpen |-> MenuIsOpen,
                      inFlight |-> mnTimeline.steps # <<>>,
                      pending |-> mnRequestId # Null])
    /\ IF mnRevision = "first"
       THEN /\ SetMenuRec(ToggleClickFirst(MenuRec))
            /\ mnEvent' = MenuEvent("toggle", "")
            /\ UNCHANGED mnRequestId
       ELSE /\ mnRequestId' = IF ShouldRequest(mnRequestId) THEN 1
                              ELSE mnRequestId
            /\ mnEvent' = MenuEvent("click", "")
            /\ UNCHANGED <<mnIsOpen, mnDataNav, mnIsOpened, mnAria,
                           mnTimeline, mnTransitions>>
    /\ UNCHANGED <<mnRevision, mnHasButton, mnDisplay, mnLastTime,
                   mnFrameTime, mnFrames, mnEscapes>>
    /\ UNCHANGED <<varsLate, varsSections, varsThrottle, varsDebounce,
                   varsBatch,
                   varsRipple, varsStartup, varsHandlers>>

\* a keydown event on the document
MenuKeydown(key) ==
    /\ mnEscapes < MaxMenuKeys
    /\ mnEscapes' = mnEscapes + 1
    /\ SetMenuRec(KeydownHandler(MenuRec, key))
    /\ mnEvent' = MenuEvent("keydown", key)
    /\ UNCHANGED <<mnRevision, mnHasButton, mnDisplay, mnRequestId,
                   mnLastTime, mnFrameTime, mnFrames, mnClicks>>
    /\ UNCHANGED <<varsLate, varsSections, varsThrottle, varsDebounce,
                   varsBatch,
                   varsRipple, varsStartup, varsHandlers>>

\* the next paint, delta milliseconds after the previous one: the frame
\* callback of toggleMenu runs if one was requested
MenuFrame(delta) ==
    /\ mnRevision # "first"
    /\ mnFrames < MaxMenuFrames
    /\ mnFrames' = mnFrames + 1
    /\ mnFrameTime' = mnFrameTime + delta
    /\ mnRequestId' = Null
    /\ IF mnRequestId = Null
       THEN /\ mnEvent' = MenuEvent("frame", "")
            /\ UNCHANGED <<mnIsOpen, mnDataNav, mnIsOpened, mnAria,
                           mnTimeline, mnTransitions, mnLastTime>>
       ELSE IF mnRevision = "jamboree"
               \/ IntervalElapsed(mnFrameTime + delta, mnLastTime, MenuFps)
       THEN /\ SetMenuRec(ToggleBody(MenuRec))
            /\ mnLastTime' = IF mnRevision = "jamboree" THEN mnLastTime
                             ELSE mnFrameTime + delta
            /\ mnEvent' = MenuEvent("toggle", "")
       ELSE /\ mnEvent' = MenuEvent("dropped", "")
            /\ UNCHANGED <<mnIsOpen, mnDataNav, mnIsOpened, mnAria,
                           mnTimeline, mnTransitions, mnLastTime>>
    /\ UNCHANGED <<mnRevision, mnHasButton, mnDisplay, mnClicks, mnEscapes>>
    /\ UNCHANGED <<varsLate, varsSections, varsThrottle, varsDebounce,
                   varsBatch,
                   varsRipple, varsStartup, varsHandlers>>

\* gsap plays the next step of tl
MenuTimelineStep ==
    /\ mnTimeline.steps # <<>>
    /\ mnTimeline' = [mnTimeline EXCEPT !.steps = Tail(@)]
    /\ mnDisplay' = CASE Head(mnTimeline.steps) = "displayBlock" -> "block"
                      [] Head(mnTimeline.steps) = "displayNone" -> "none"
                      [] OTHER -> mnDisplay
    /\ mnEvent' = MenuEvent("play", "")
    /\ UNCHANGED <<mnRevision, mnHasButton, mnIsOpen, mnDataNav, mnIsOpened,
                   mnAria, mnRequestId, mnLastTime, mnFrameTime, mnFrames,
                   mnClicks, mnEscapes, mnTransitions>>
    /\ UNCHANGED <<varsLate, varsSections, varsThrottle, varsDebounce,
                   varsBatch,
                   varsRipple, varsStartup, varsHandlers>>

IdleMenu ==
    /\ mnRevision = "script"
    /\ mnHasButton = TRUE
    /\ mnIsOpen = FALSE
    /\ mnDataNav = "closed"
    /\ mnIsOpened = FALSE
    /\ mnAria = "Open menu"
    /\ mnDisplay = "none"
    /\ mnTimeline = EmptyTimeline
    /\ mnRequestId = Null
    /\ mnLastTime = 0
    /\ mnFrameTime = 0
    /\ mnFrames = 0
    /\ mnClicks = <<>>
    /\ mnEscapes = 0
    /\ mnTransitions = 0
    /\ mnEvent = [type |-> "none", key |-> "", wasOpen |-> FALSE]

\* the state initMenu leaves: isOpen = false, tl empty, the button labelled
\* "Open menu"; the markup decides data-nav and the nav's display.  The
\* page has been up for longer than one throttle interval.
InitMenuState ==
    /\ mnRevision \in MenuRevisions
    /\ mnHasButton \in BOOLEAN
    /\ mnIsOpen = FALSE
    /\ mnDataNav \in {"", "closed", "open"}
    /\ mnIsOpened = FALSE
    /\ mnAria = IF mnHasButton THEN "Open menu" ELSE ""
    /\ mnDisplay = IF mnDataNav = "open" THEN "block" ELSE "none"
    /\ mnTimeline = EmptyTimeline
    /\ mnRequestId = Null
    /\ mnLastTime = 0
    /\ mnFrameTime = (1000 \div MenuFps) + 1
    /\ mnFrames = 0
    /\ mnClicks = <<>>
    /\ mnEscapes = 0
    /\ mnTransitions = 0
    /\ mnEvent = [type |-> "none", key |-> "", wasOpen |-> MenuIsOpen]

NextMenu ==
    \/ MenuClick
    \/ \E key \in Keys : MenuKeydown(key)
    \/ \E delta \in MenuFrameDeltas : MenuFrame(delta)
    \/ MenuTimelineStep

(***************************************************************************)
(* The hover ripple of one [data-btn='wrap'] wrapper with its clip         *)
(* element.  gsap keeps every tween it has started on the clip element     *)
(* active until the tween completes or is killed; a tween started with     *)
(* overwrite: true kills the other tweens of its target first, one started *)
(* without it (gsap's default, overwrite: false) leaves them running.  All *)
(* ripple tweens last CONFIG.duration.menu, so they complete in the order  *)
(* they were started.                                                      *)
(***************************************************************************)
\* the pointer's position as percentLeft, percentTop
PointerPositions == {<<0, 50>>, <<100, 50>>}

\* how the handlers are attached: on the wrapper itself through jQuery
\* (first revision, initJQueryButtons) or as capturing listeners on the
\* document (initButtons, initVanillaButtons), which also receive the
\* mouseenter / mouseleave events of the wrapper's descendants
Wirings == {"jquery", "delegated"}

\* the tween gsap.fromTo / gsap.to starts: its clip-path radius and centre
Tween(id, radius, pos) == [id |-> id, radius |-> radius, at |-> pos]

\* gsap starts tween tw on the clip element
StartTween_Keep(tweens, tw, overwrite) == tweens \cup {tw}

StartTween(tweens, tw, overwrite) ==
    IF overwrite THEN {tw} ELSE tweens \cup {tw}

RippleRec ==
    [display |-> rpDisplay, tweens |-> rpTweens, nextId |-> rpNextId,
     last |-> rpLast]

\* the mouseenter handler: gsap.set(clipEl, {display: "flex"});
\* gsap.fromTo(clipEl, {circle(0% ..)}, {circle(141.4% ..)})
handleButtonEnter(r, pos) ==
    [display |-> "flex",
     tweens |-> StartTween(r.tweens, Tween(r.nextId, "141.4%", pos), FALSE),
     nextId |-> r.nextId + 1,
     last |-> [type |-> "enter", inFlight |-> {t.radius : t \in r.tweens}]]

\* the mouseleave handler: gsap.to(clipEl, {circle(0% ..), overwrite: true})
handleButtonLeave(r, pos) ==
    [display |-> r.display,
     tweens |-> StartTween(r.tweens, Tween(r.nextId, "0%", pos), TRUE),
     nextId |-> r.nextId + 1,
     last |-> [type |-> "leave", inFlight |-> {t.radius : t \in r.tweens}]]

SetRippleRec(r) ==
    /\ rpDisplay' = r.display
    /\ rpTweens' = r.tweens
    /\ rpNextId' = r.nextId
    /\ rpLast' = r.last

\* the pointer enters the wrapper from outside, onto the wrapper's own area
\* or straight onto a descendant: mouseenter is dispatched to the wrapper
\* and to the descendant entered
PointerEnter(pos, ontoChild) ==
    /\ rpEvents < MaxRippleEvents
    /\ ~rpInside
    /\ rpInside' = TRUE
    /\ rpInChild' = ontoChild
    /\ rpEvents' = rpEvents + 1
    /\ SetRippleRec(IF rpWiring = "delegated" /\ ontoChild
                    THEN handleButtonEnter(handleButtonEnter(RippleRec, pos),
                                           pos)
                    ELSE handleButtonEnter(RippleRec, pos))
    /\ UNCHANGED rpWiring
    /\ UNCHANGED <<varsLate, varsSections, varsThrottle, varsDebounce,
                   varsBatch,
                   varsMenu, varsStartup, varsHandlers>>

\* the pointer leaves the wrapper: mouseleave is dispatched to the
\* descendant it was over and to the wrapper
PointerLeave(pos) ==
    /\ rpEvents < MaxRippleEvents
    /\ rpInside
    /\ rpInside' = FALSE
    /\ rpInChild' = FALSE
    /\ rpEvents' = rpEvents + 1
    /\ SetRippleRec(IF rpWiring = "delegated" /\ rpInChild
                    THEN handleButtonLeave(handleButtonLeave(RippleRec, pos),
                                           pos)
                    ELSE handleButtonLeave(RippleRec, pos))
    /\ UNCHANGED rpWiring
    /\ UNCHANGED <<varsLate, varsSections, varsThrottle, varsDebounce,
                   varsBatch,
                   varsMenu, varsStartup, varsHandlers>>

\* inside the wrapper the pointer moves onto a descendant (mouseenter on
\* the descendant) or off it (mouseleave on the descendant); only the
\* document's capturing listeners receive these
PointerOverChild(pos) ==
    /\ rpEvents < MaxRippleEvents
    /\ rpInside
    /\ rpInChild' = ~rpInChild
    /\ rpEvents' = rpEvents + 1
    /\ IF rpWiring = "delegated"
       THEN SetRippleRec(IF rpInChild THEN handleButtonLeave(RippleRec, pos)
                         ELSE handleButtonEnter(RippleRec, pos))
       ELSE UNCHANGED <<rpDisplay, rpTweens, rpNextId, rpLast>>
    /\ UNCHANGED <<rpWiring, rpInside>>
    /\ UNCHANGED <<varsLate, varsSections, varsThrottle, varsDebounce,
                   varsBatch,
                   varsMenu, varsStartup, varsHandlers>>

\* the oldest active tween reaches its end
RippleTweenComplete ==
    /\ rpTweens # {}
    /\ LET tw == CHOOSE t \in rpTweens : \A u \in rpTweens : t.id <= u.id
       IN rpTweens' = rpTweens \ {tw}
    /\ rpLast' = [type |-> "complete",
                  inFlight |-> {t.radius : t \in rpTweens}]
    /\ UNCHANGED <<rpWiring, rpInside, rpInChild, rpEvents, rpDisplay,
                   rpNextId>>
    /\ UNCHANGED <<varsLate, varsSections, varsThrottle, varsDebounce,
                   varsBatch,
                   varsMenu, varsStartup, varsHandlers>>

IdleRipple ==
    /\ rpWiring = "delegated"
    /\ rpInside = FALSE
    /\ rpInChild = FALSE
    /\ rpEvents = 0
    /\ rpDisplay = "none"
    /\ rpTweens = {}
    /\ rpNextId = 1
    /\ rpLast = [type |-> "none", inFlight |-> {}]

\* the pointer is outside the wrapper, the clip element is hidden
InitRippleState ==
    /\ rpWiring \in Wirings
    /\ rpInside = FALSE
    /\ rpInChild = FALSE
    /\ rpEvents = 0
    /\ rpDisplay = "none"
    /\ rpTweens = {}
    /\ rpNextId = 1
    /\ rpLast = [type |-> "none", inFlight |-> {}]

NextRipple ==
    \/ \E pos \in PointerPositions, ontoChild \in BOOLEAN :
          PointerEnter(pos, ontoChild)
    \/ \E pos \in PointerPositions : PointerLeave(pos)
    \/ \E pos \in PointerPositions : PointerOverChild(pos)
    \/ RippleTweenComplete

(***************************************************************************)
(* The capability descriptor of the final revision and the strategy init   *)
(* selects from it.  CONFIG is evaluated once, when the script loads.      *)
(***************************************************************************)
\* navigator.hardwareConcurrency: undefined where the API is missing
CoreCounts == {Undefined} \cup {Num(n) : n \in 1..MaxCores}

\* the threshold of CONFIG.mobile.isLowEnd
LowEndCores == 4

\* CONFIG.mobile.isLowEnd: navigator.hardwareConcurrency <= 4; undefined
\* converts to NaN, and NaN <= 4 is false
IsLowEnd_UndefinedAsZero(hwc) == hwc = Undefined \/ hwc[2] <= LowEndCores

IsLowEnd(hwc) == hwc # Undefined /\ hwc[2] <= LowEndCores

\* utils.isLowEndDevice()
isLowEndDevice_CoresOnly(isLowEnd, reducedMotion) == isLowEnd

isLowEndDevice(isLowEnd, reducedMotion) == isLowEnd \/ reducedMotion

StrategyNames == {"simple", "observer", "scrollTrigger"}

\* the branches of init's if / else if / else that are taken
StrategiesStarted(low, io) ==
    {st \in StrategyNames : st = SelectStrategy(low, io)}

\* init() with the library present, and the promise callback it schedules
StartupInit ==
    /\ suInits < MaxInits
    /\ suInits' = suInits + 1
    /\ suStarted' = Append(suStarted,
          StrategiesStarted(isLowEndDevice(suIsLowEnd, suReducedMotion),
                            suUseIO))
    /\ UNCHANGED <<suHardwareConcurrency, suReducedMotion, suUseIO,
                   suIsLowEnd>>
    /\ UNCHANGED <<varsLate, varsSections, varsThrottle, varsDebounce,
                   varsBatch,
                   varsMenu, varsRipple, varsHandlers>>

IdleStartup ==
    /\ suHardwareConcurrency = Undefined
    /\ suReducedMotion = FALSE
    /\ suUseIO = TRUE
    /\ suIsLowEnd = FALSE
    /\ suInits = 0
    /\ suStarted = <<>>

\* the script has loaded: CONFIG holds the descriptor of the environment
InitStartupState ==
    /\ suHardwareConcurrency \in CoreCounts
    /\ suReducedMotion \in BOOLEAN
    /\ suUseIO \in BOOLEAN
    /\ suIsLowEnd = IsLowEnd(suHardwareConcurrency)
    /\ suInits = 0
    /\ suStarted = <<>>

NextStartup == StartupInit

(***************************************************************************)
(* One handler run: the steps the text-reveal helpers and the FAQ handler  *)
(* add to the timeline they are given.  Times are in hundredths of a       *)
(* second.  The second and final revisions have splitHeading and           *)
(* splitParagraph; the first and final revisions animate FAQ sections.     *)
(***************************************************************************)
HandlerRevisions == {"first", "jamboree", "script"}

\* CONFIG.performance.maxSplitChars
MaxSplitChars == 100

\* the headings of the page: no element found (Null), a short heading, a
\* heading longer than maxSplitChars
Headings == {Null, 1, 2}

\* element.textContent.length
TextLength(el) == IF el = 1 THEN MaxSplitChars - 1 ELSE MaxSplitChars + 1

\* the paragraph lists a handler passes: null, an empty list, one or two
\* paragraphs
ParagraphLists == {<<>>, <<3>>, <<3, 4>>}

\* the delays the handlers pass, as literal offsets
Delays == {0, 30}

\* the branch both helpers take to the single-element fade
\* (second revision: CONFIG.mobile.reducedMotion; final revision:
\* utils.isLowEndDevice())
Degrades ==
    IF hdRevision = "script"
    THEN isLowEndDevice(hdIsLowEnd, hdReducedMotion)
    ELSE hdReducedMotion

\* no FAQ section has been handled
NoFaq ==
    [handled |-> FALSE, items |-> 0, delayAttr |-> 0, largeScreen |-> FALSE]

HandlerRec ==
    [steps |-> hdSteps, splitCreates |-> hdSplitCreates,
     splitTexts |-> hdSplitTexts]

AddStep(h, helper, kind, target, delay) ==
    [h EXCEPT !.steps = Append(@, [helper |-> helper, kind |-> kind,
                                   target |-> target, start |-> delay])]

\* SplitText.create(element, ...)
SplitTextCreate(h) == [h EXCEPT !.splitCreates = @ + 1]

\* animationHelpers.splitHeading(element, timeline, delay)
splitHeading(h, element, delay) ==
    IF element = Null THEN h
    ELSE IF Degrades THEN AddStep(h, "splitHeading", "fade", <<element>>, delay)
    ELSE IF hdRevision = "script" /\ element \in h.splitTexts
    THEN AddStep(h, "splitHeading", "chars", <<element>>, delay)
    ELSE LET kind == IF hdRevision = "script"
                        /\ TextLength(element) > MaxSplitChars
                     THEN "words" ELSE "chars"
             split == SplitTextCreate(h)
             cached == IF hdRevision = "script"
                       THEN [split EXCEPT !.splitTexts = @ \cup {element}]
                       ELSE split
         IN AddStep(cached, "splitHeading", kind, <<element>>, delay)

\* animationHelpers.splitParagraph(elements, timeline, delay)
splitParagraph(h, elements, delay) ==
    IF elements = <<>> THEN h
    ELSE IF Degrades
    THEN AddStep(h, "splitParagraph", "fade", elements, delay)
    ELSE AddStep(SplitTextCreate(h), "splitParagraph", "lines", elements,
                 delay)

\* the stagger of the FAQ items
FaqStagger == 15

\* timeline.from(items, {stagger}, position): one reveal per item, in
\* document order, each starting the stagger after the one before
StaggerSteps_Together(n, position, stagger) ==
    [i \in 1..n |-> [helper |-> "faq", kind |-> "reveal", target |-> <<i>>,
                     start |-> position]]

StaggerSteps(n, position, stagger) ==
    [i \in 1..n |-> [helper |-> "faq", kind |-> "reveal", target |-> <<i>>,
                     start |-> position + stagger * (i - 1)]]

\* first revision: getDelay(parseFloat(el.getAttribute(
\* "data-animation-delay")) || 0), with getDelay = isLargeScreen() ? d : 0
getDelay(delayAttr, largeScreen) == IF largeScreen THEN delayAttr ELSE 0

\* the position the FAQ handler gives its tween: 0 in animateFAQ, the
\* section's delay in the first revision
FaqPosition(delayAttr, largeScreen) ==
    IF hdRevision = "first" THEN getDelay(delayAttr, largeScreen) ELSE 0

\* animateFAQ(section, timeline) / the first revision's FAQ block, on a
\* section with n accordion items
animateFAQ(h, n, delayAttr, largeScreen) ==
    IF n > 0
    THEN [h EXCEPT !.steps = @ \o
            StaggerSteps(n, FaqPosition(delayAttr, largeScreen), FaqStagger)]
    ELSE h

SetHandlerRec(h) ==
    /\ hdSteps' = h.steps
    /\ hdSplitCreates' = h.splitCreates
    /\ hdSplitTexts' = h.splitTexts

\* a handler calls splitHeading
CallSplitHeading(element, delay) ==
    /\ hdRevision # "first"
    /\ ~hdFaq.handled
    /\ hdCalls < MaxHelperCalls
    /\ hdCalls' = hdCalls + 1
    /\ SetHandlerRec(splitHeading(HandlerRec, element, delay))
    /\ UNCHANGED <<hdRevision, hdReducedMotion, hdIsLowEnd, hdFaq>>
    /\ UNCHANGED <<varsLate, varsSections, varsThrottle, varsDebounce,
                   varsBatch,
                   varsMenu, varsRipple, varsStartup>>

\* a handler calls splitParagraph
CallSplitParagraph(elements, delay) ==
    /\ hdRevision # "first"
    /\ ~hdFaq.handled
    /\ hdCalls < MaxHelperCalls
    /\ hdCalls' = hdCalls + 1
    /\ SetHandlerRec(splitParagraph(HandlerRec, elements, delay))
    /\ UNCHANGED <<hdRevision, hdReducedMotion, hdIsLowEnd, hdFaq>>
    /\ UNCHANGED <<varsLate, varsSections, varsThrottle, varsDebounce,
                   varsBatch,
                   varsMenu, varsRipple, varsStartup>>

\* the FAQ handler runs on a fresh timeline, for a section with n
\* accordion items and the given data-animation-delay
CallAnimateFAQ(n, delayAttr, largeScreen) ==
    /\ hdRevision # "jamboree"
    /\ ~hdFaq.handled
    /\ hdCalls = 0
    /\ hdFaq' = [handled |-> TRUE, items |-> n, delayAttr |-> delayAttr,
                 largeScreen |-> largeScreen]
    /\ SetHandlerRec(animateFAQ(HandlerRec, n, delayAttr, largeScreen))
    /\ UNCHANGED <<hdRevision, hdReducedMotion, hdIsLowEnd, hdCalls>>
    /\ UNCHANGED <<varsLate, varsSections, varsThrottle, varsDebounce,
                   varsBatch,
                   varsMenu, varsRipple, varsStartup>>

IdleHandlers ==
    /\ hdRevision = "script"
    /\ hdReducedMotion = FALSE
    /\ hdIsLowEnd = FALSE
    /\ hdSteps = <<>>
    /\ hdSplitCreates = 0
    /\ hdSplitTexts = {}
    /\ hdCalls = 0
    /\ hdFaq = NoFaq

\* a handler is about to run on the timeline it was given
InitHandlersState ==
    /\ hdRevision \in HandlerRevisions
    /\ hdReducedMotion \in BOOLEAN
    /\ hdIsLowEnd \in IF hdRevision = "script" THEN BOOLEAN ELSE {FALSE}
    /\ hdSteps = <<>>
    /\ hdSplitCreates = 0
    /\ hdSplitTexts = {}
    /\ hdCalls = 0
    /\ hdFaq = NoFaq

\* the data-animation-delay values of the page, 0 if the attribute is absent
DelayAttrs == {0, 50}

NextHandlers ==
    \/ \E element \in Headings, delay \in Delays :
          CallSplitHeading(element, delay)
    \/ \E elements \in ParagraphLists, delay \in Delays :
          CallSplitParagraph(elements, delay)
    \/ \E n \in 0..MaxFaqItems, delayAttr \in DelayAttrs,
          largeScreen \in BOOLEAN :
          CallAnimateFAQ(n, delayAttr, largeScreen)

(***************************************************************************)
(* utils.qs with utils.domCache (final revision).  The page has two        *)
(* container elements p1 and p2, in that document order, and content       *)
(* outside both; each of the three regions holds a match of a selector or  *)
(* not.  The page does not change while it is queried.                     *)
(***************************************************************************)
Selectors == {".a", ".b"}

\* the parent arguments of utils.qs
Parents == {"document", "p1", "p2"}

\* the regions of the page in document order
Regions == <<"p1", "p2", "rest">>

\* an element: the region it lies in and the selector it matches
Element(region, selector) == [region |-> region, selector |-> selector]

\* querySelector's null
NoElement == Element("none", "")

\* parent.querySelector(selector): the first match in document order among
\* the parent's descendants
querySelector(parent, selector) ==
    LET within == IF parent = "document" THEN DOMAIN Regions
                  ELSE {i \in DOMAIN Regions : Regions[i] = parent}
        hits == {i \in within : qsDom[<<Regions[i], selector>>]}
    IN IF hits = {} THEN NoElement
       ELSE Element(Regions[CHOOSE i \in hits : \A j \in hits : i <= j],
                    selector)

\* `${parent === document ? 'doc' : 'el'}-${selector}`
CacheKey(selector, parent) ==
    <<IF parent = "document" THEN "doc" ELSE "el", selector>>

\* utils.domCache.get(key)
MapGet(m, k) == (CHOOSE p \in m : p[1] = k)[2]

\* utils.qs(selector, parent, useCache): the element returned and the cache
\* it leaves
qs(cache, selector, parent, useCache) ==
    LET key == CacheKey(selector, parent)
        element == querySelector(parent, selector)
    IN IF useCache /\ MapHas(cache, key)
       THEN [element |-> MapGet(cache, key), cache |-> cache, hit |-> TRUE]
       ELSE [element |-> element,
             cache |-> IF useCache /\ element # NoElement
                       THEN MapSet(cache, key, element)
                       ELSE cache,
             hit |-> FALSE]

NoQsCall ==
    [selector |-> "", parent |-> "", useCache |-> FALSE,
     element |-> NoElement, hit |-> FALSE]

\* a call of utils.qs
QsCall(selector, parent, useCache) ==
    /\ qsCalls < MaxQsCalls
    /\ qsCalls' = qsCalls + 1
    /\ LET r == qs(qsDomCache, selector, parent, useCache)
       IN /\ qsDomCache' = r.cache
          /\ qsLast' = [selector |-> selector, parent |-> parent,
                        useCache |-> useCache, element |-> r.element,
                        hit |-> r.hit]
    /\ UNCHANGED qsDom
    /\ UNCHANGED <<varsSections, varsThrottle, varsDebounce, varsBatch,
                   varsMenu, varsRipple, varsStartup, varsHandlers>>
    /\ UNCHANGED varsBesideQs

\* utils.domCache.clear(), as the resize handler and cleanup call it
QsCacheClear ==
    /\ qsDomCache # {}
    /\ qsDomCache' = {}
    /\ UNCHANGED <<qsDom, qsCalls, qsLast>>
    /\ UNCHANGED <<varsSections, varsThrottle, varsDebounce, varsBatch,
                   varsMenu, varsRipple, varsStartup, varsHandlers>>
    /\ UNCHANGED varsBesideQs

PageCells == {<<Regions[i], sel>> : i \in DOMAIN Regions, sel \in Selectors}

IdleQs ==
    /\ qsDom = [x \in PageCells |-> FALSE]
    /\ qsDomCache = {}
    /\ qsCalls = 0
    /\ qsLast = NoQsCall

\* any page, the cache as the script creates it: empty
InitQsState ==
    /\ qsDom \in [PageCells -> BOOLEAN]
    /\ qsDomCache = {}
    /\ qsCalls = 0
    /\ qsLast = NoQsCall

NextQs ==
    \/ \E selector \in Selectors, parent \in Parents, useCache \in BOOLEAN :
          QsCall(selector, parent, useCache)
    \/ QsCacheClear

(***************************************************************************)
(* The resize handlers (setupGlobalHandlers in the final revision, the     *)
(* listener init's body adds in the second).  Every run of init's body     *)
(* registers a handler with a resizeTimer of its own; one resize event     *)
(* calls them all.  A timeout runs when it is due: before the clock moves  *)
(* on and before an event of the same instant; timeouts of one instant run *)
(* in the order they were set.                                             *)
(***************************************************************************)
ResizeRevisions == {"jamboree", "script"}

\* the delay of the resizeTimer timeout, in ms
ResizeWait == 250

\* how far the clock moves between two steps, in ms
ResizeDeltas == {100, 150}

\* clearTimeout(resizeTimer) of handler h
ClearResizeTimer_Noop(timers, h) == timers

ClearResizeTimer(timers, h) == {t \in timers : t.handler # h}

\* resizeTimer = setTimeout(..., 250) of handler h
SetResizeTimer(timers, h, now) ==
    ClearResizeTimer(timers, h) \cup {[handler |-> h, due |-> now + ResizeWait]}

RECURSIVE RearmAll(_, _, _)
\* the handlers 1 .. n run on one resize event
RearmAll(timers, n, now) ==
    IF n = 0 THEN timers
    ELSE SetResizeTimer(RearmAll(timers, n - 1, now), n, now)

ResizeTimerDue == \E t \in rzTimers : t.due <= rzNow

\* a resize event: handleResize of every registered handler
ResizeEvent ==
    /\ Len(rzEvents) < MaxResizeEvents
    /\ ~ResizeTimerDue
    /\ rzEvents' = Append(rzEvents, rzNow)
    /\ rzTimers' = RearmAll(rzTimers, rzHandlers, rzNow)
    /\ rzClass' = IF rzRevision = "script" THEN TRUE ELSE rzClass
    /\ UNCHANGED <<rzRevision, rzHandlers, rzNow, rzDomCache, rzRefreshes,
                   rzClears>>
    /\ UNCHANGED <<varsSections, varsThrottle, varsDebounce, varsBatch,
                   varsMenu, varsRipple, varsStartup, varsHandlers>>
    /\ UNCHANGED varsBesideResize

\* the timeout callback of one handler: the earliest set of those due
ResizeTimerFire ==
    /\ ResizeTimerDue
    /\ LET due == {t \in rzTimers : t.due <= rzNow}
           tm == CHOOSE t \in due :
                    \A u \in due : t.due < u.due
                                   \/ (t.due = u.due /\ t.handler <= u.handler)
       IN rzTimers' = rzTimers \ {tm}
    /\ rzRefreshes' = Append(rzRefreshes, rzNow)
    /\ IF rzRevision = "script"
       THEN /\ rzClass' = FALSE
            /\ rzDomCache' = {}
            /\ rzClears' = Append(rzClears, rzNow)
       ELSE UNCHANGED <<rzClass, rzDomCache, rzClears>>
    /\ UNCHANGED <<rzRevision, rzHandlers, rzNow, rzEvents>>
    /\ UNCHANGED <<varsSections, varsThrottle, varsDebounce, varsBatch,
                   varsMenu, varsRipple, varsStartup, varsHandlers>>
    /\ UNCHANGED varsBesideResize

\* time passes: by delta, or up to the next timeout if that is sooner
ResizeTick(delta) ==
    /\ ~ResizeTimerDue
    /\ rzNow + delta <= MaxResizeTime
    /\ LET dues == {t.due : t \in rzTimers}
           next == IF dues = {} THEN rzNow + delta
                   ELSE CHOOSE d \in dues : \A e \in dues : d <= e
       IN rzNow' = Min(rzNow + delta, next)
    /\ UNCHANGED <<rzRevision, rzHandlers, rzTimers, rzClass, rzDomCache,
                   rzEvents, rzRefreshes, rzClears>>
    /\ UNCHANGED <<varsSections, varsThrottle, varsDebounce, varsBatch,
                   varsMenu, varsRipple, varsStartup, varsHandlers>>
    /\ UNCHANGED varsBesideResize

IdleResize ==
    /\ rzRevision = "script"
    /\ rzHandlers = 1
    /\ rzNow = 0
    /\ rzTimers = {}
    /\ rzClass = FALSE
    /\ rzDomCache = {}
    /\ rzEvents = <<>>
    /\ rzRefreshes = <<>>
    /\ rzClears = <<>>

\* init's body has run once or twice; in the final revision initMenu has
\* cached the .nav and .menu-button lookups
InitResizeState ==
    /\ rzRevision \in ResizeRevisions
    /\ rzHandlers \in {1, 2}
    /\ rzNow = 0
    /\ rzTimers = {}
    /\ rzClass = FALSE
    /\ rzDomCache = IF rzRevision = "script"
                    THEN {"doc-.nav", "doc-.menu-button"} ELSE {}
    /\ rzEvents = <<>>
    /\ rzRefreshes = <<>>
    /\ rzClears = <<>>

NextResize ==
    \/ ResizeEvent
    \/ ResizeTimerFire
    \/ \E delta \in ResizeDeltas : ResizeTick(delta)

(***************************************************************************)
(* Startup.  The first revision registers two DOMContentLoaded handlers    *)
(* (the library check, the menu) and a document.fonts.ready callback (the  *)
(* sections); the second and final revisions do everything from init(),    *)
(* whose body runs when Promise.race([fontsReady, timeout]) settles.  A    *)
(* promise settles once: a race that has settled ignores the promise that  *)
(* resolves later.  Timeouts run when they are due.                        *)
(***************************************************************************)
BootRevisions == {"first", "jamboree", "script"}

\* setTimeout(resolve, 3000) in the second revision
FontTimeoutJamboree == 3000

\* setTimeout(resolve, 2000) in the final revision
FontTimeoutScript == 2000

FontTimeout(rev) ==
    IF rev = "jamboree" THEN FontTimeoutJamboree ELSE FontTimeoutScript

\* how far the clock moves between two steps, in ms
BootDeltas == {1000, 1500}

\* what a use of the global gsap raises when window.gsap is undefined: the
\* global is undeclared, or declared and undefined
MissingLibraryErrors == {"ReferenceError", "TypeError"}

\* the then-callback of a race runs when the race settles: on the first of
\* its promises to resolve
ThenRuns_OnEveryResolve(settled) == TRUE

ThenRuns(settled) == ~settled

\* one of the promises of the race of init call r resolves at time now
RaceResolve(r, now) ==
    IF ThenRuns(r.settled)
    THEN [r EXCEPT !.settled = TRUE, !.bodyRuns = @ + 1, !.bodyAt = now]
    ELSE r

\* init() up to Promise.race(...).then(...): the record of the new call
NewInit(now) ==
    [at |-> now, due |-> now + FontTimeout(btRevision), fired |-> FALSE,
     settled |-> FALSE, bodyRuns |-> 0, bodyAt |-> 0 - 1]

BodyRuns(inits) ==
    {i \in DOMAIN inits : inits[i].bodyRuns >= 1}

\* init() of the second and final revision: at DOMContentLoaded (or at
\* once, if the document has loaded) and, in the final revision, through
\* WebflowAnimations.init
BootInit ==
    /\ btRevision # "first"
    /\ btInitCalls < MaxBootInits
    /\ btRevision = "jamboree" => btInitCalls = 0
    /\ btInitCalls' = btInitCalls + 1
    /\ btDomReady' = TRUE
    /\ IF ~btGsap
       THEN /\ btClasses' = btClasses \cup {"gsap-not-found"}
            /\ UNCHANGED <<btInits, btLibCalls, btVisible, btSetUp>>
       ELSE LET r == IF btFontsApi /\ ~btFontsReady
                     THEN NewInit(btNow)
                     ELSE RaceResolve(NewInit(btNow), btNow)
            IN /\ btInits' = Append(btInits, r)
               /\ btLibCalls' = btLibCalls + 1
               /\ btVisible' = IF r.bodyRuns >= 1 THEN btSections
                               ELSE btVisible
               /\ btSetUp' = IF r.bodyRuns >= 1 THEN btSections ELSE btSetUp
               /\ UNCHANGED btClasses
    /\ UNCHANGED <<btRevision, btGsap, btHasNav, btFontsApi, btSections,
                   btNow, btFontsReady, btThrown>>
    /\ UNCHANGED <<varsSections, varsThrottle, varsDebounce, varsBatch,
                   varsMenu, varsRipple, varsStartup, varsHandlers>>
    /\ UNCHANGED varsBesideBoot

\* DOMContentLoaded in the first revision: the library check, then the menu
\* handler, which constructs its timeline with gsap.timeline()
BootDomContentLoaded ==
    /\ btRevision = "first"
    /\ ~btDomReady
    /\ btDomReady' = TRUE
    /\ btInitCalls' = btInitCalls + 1
    /\ btClasses' = IF btGsap THEN btClasses
                    ELSE btClasses \cup {"gsap-not-found"}
    /\ IF ~btHasNav
       THEN /\ btLibCalls' = btLibCalls + (IF btGsap THEN 1 ELSE 0)
            /\ UNCHANGED btThrown
       ELSE IF btGsap
       THEN /\ btLibCalls' = btLibCalls + 2
            /\ UNCHANGED btThrown
       ELSE /\ \E exc \in MissingLibraryErrors :
                  btThrown' = Append(btThrown,
                                     [handler |-> "menu", exception |-> exc,
                                      flagged |-> TRUE])
            /\ UNCHANGED btLibCalls
    /\ UNCHANGED <<btRevision, btGsap, btHasNav, btFontsApi, btSections,
                   btNow, btFontsReady, btInits, btVisible, btSetUp>>
    /\ UNCHANGED <<varsSections, varsThrottle, varsDebounce, varsBatch,
                   varsMenu, varsRipple, varsStartup, varsHandlers>>
    /\ UNCHANGED varsBesideBoot

\* document.fonts.ready resolves.  First revision: the callback sets up
\* the sections one by one, each with visibility and then gsap.timeline().
\* Second and final revision: the races still open settle
BootFontsReady ==
    /\ btFontsApi
    /\ ~btFontsReady
    /\ btFontsReady' = TRUE
    /\ IF btRevision # "first"
       THEN /\ btInits' = [i \in DOMAIN btInits |->
                              RaceResolve(btInits[i], btNow)]
            /\ LET ran == BodyRuns(btInits') # {}
               IN /\ btVisible' = IF ran THEN btSections ELSE btVisible
                  /\ btSetUp' = IF ran THEN btSections ELSE btSetUp
            /\ UNCHANGED <<btLibCalls, btThrown>>
       ELSE IF btGsap
       THEN /\ btVisible' = btSections
            /\ btSetUp' = btSections
            /\ btLibCalls' = btLibCalls + btSections
            /\ UNCHANGED <<btInits, btThrown>>
       ELSE IF btSections = 0
       THEN UNCHANGED <<btInits, btVisible, btSetUp, btLibCalls, btThrown>>
       ELSE /\ btVisible' = 1
            /\ \E exc \in MissingLibraryErrors :
                  btThrown' = Append(btThrown,
                                     [handler |-> "fonts", exception |-> exc,
                                      flagged |->
                                         "gsap-not-found" \in btClasses])
            /\ UNCHANGED <<btInits, btSetUp, btLibCalls>>
    /\ UNCHANGED <<btRevision, btGsap, btHasNav, btFontsApi, btSections,
                   btNow, btDomReady, btInitCalls, btClasses>>
    /\ UNCHANGED <<varsSections, varsThrottle, varsDebounce, varsBatch,
                   varsMenu, varsRipple, varsStartup, varsHandlers>>
    /\ UNCHANGED varsBesideBoot

BootTimerDue == \E i \in DOMAIN btInits :
                    ~btInits[i].fired /\ btInits[i].due <= btNow

\* the timeout of init call i resolves its promise
BootTimerFire(i) ==
    /\ i \in DOMAIN btInits
    /\ ~btInits[i].fired
    /\ btInits[i].due <= btNow
    /\ \A j \in DOMAIN btInits :
          (j < i /\ btInits[j].due <= btNow) => btInits[j].fired
    /\ btInits' = [btInits EXCEPT
                      ![i] = RaceResolve([@ EXCEPT !.fired = TRUE], btNow)]
    /\ btVisible' = btSections
    /\ btSetUp' = btSections
    /\ UNCHANGED <<btRevision, btGsap, btHasNav, btFontsApi, btSections,
                   btNow, btDomReady, btFontsReady, btInitCalls, btClasses,
                   btLibCalls, btThrown>>
    /\ UNCHANGED <<varsSections, varsThrottle, varsDebounce, varsBatch,
                   varsMenu, varsRipple, varsStartup, varsHandlers>>
    /\ UNCHANGED varsBesideBoot

\* time passes: by delta, or up to the next timeout if that is sooner
BootTick(delta) ==
    /\ ~BootTimerDue
    /\ btNow + delta <= MaxBootTime
    /\ LET dues == {btInits[i].due : i \in {j \in DOMAIN btInits :
                                               ~btInits[j].fired}}
           next == IF dues = {} THEN btNow + delta
                   ELSE CHOOSE d \in dues : \A e \in dues : d <= e
       IN btNow' = Min(btNow + delta, next)
    /\ UNCHANGED <<btRevision, btGsap, btHasNav, btFontsApi, btSections,
                   btDomReady, btFontsReady, btInits, btInitCalls, btClasses,
                   btLibCalls, btVisible, btSetUp, btThrown>>
    /\ UNCHANGED <<varsSections, varsThrottle, varsDebounce, varsBatch,
                   varsMenu, varsRipple, varsStartup, varsHandlers>>
    /\ UNCHANGED varsBesideBoot

IdleBoot ==
    /\ btRevision = "script"
    /\ btGsap = TRUE
    /\ btHasNav = FALSE
    /\ btFontsApi = TRUE
    /\ btSections = 0
    /\ btNow = 0
    /\ btDomReady = FALSE
    /\ btFontsReady = FALSE
    /\ btInits = <<>>
    /\ btInitCalls = 0
    /\ btClasses = {}
    /\ btLibCalls = 0
    /\ btVisible = 0
    /\ btSetUp = 0
    /\ btThrown = <<>>

\* the script has loaded; nothing has run yet.  The first revision reads
\* document.fonts.ready unconditionally, so its pages have document.fonts
InitBootState ==
    /\ btRevision \in BootRevisions
    /\ btGsap \in BOOLEAN
    /\ btHasNav \in BOOLEAN
    /\ btFontsApi \in BOOLEAN
    /\ btRevision = "first" => btFontsApi
    /\ btSections \in 0..MaxBootSections
    /\ btNow = 0
    /\ btDomReady = FALSE
    /\ btFontsReady = FALSE
    /\ btInits = <<>>
    /\ btInitCalls = 0
    /\ btClasses = {}
    /\ btLibCalls = 0
    /\ btVisible = 0
    /\ btSetUp = 0
    /\ btThrown = <<>>

NextBoot ==
    \/ BootInit
    \/ BootDomContentLoaded
    \/ BootFontsReady
    \/ \E i \in 1..MaxBootInits : BootTimerFire(i)
    \/ \E delta \in BootDeltas : BootTick(delta)

(***************************************************************************)
(* The first revision's menu and the final revision's menu on the same     *)
(* page, given the same events.  The final revision's menu is held in the  *)
(* menu variables (mnRevision = "script"), the first revision's in         *)
(* prFirst.  Events are issued one at a time: a toggle activation is a     *)
(* click followed by the paint that serves its frame request, and the next *)
(* event comes only after that paint.                                      *)
(***************************************************************************)
\* ms from the latest paint to the next click on the toggle
PairWaits == {1, 17, 34}

\* ms from a click to the paint that runs its frame callback
PairPaintDelays == {1, 17}

\* the aria-label the markup gives the menu button: none, or one of its own
MarkupLabels == {"", "Menu"}

\* the values a menu shows: the data-nav attribute and the aria-label
Shown(m) == <<m.dataNav, m.aria>>

\* the log of written values after a step from menu m to menu n
Logged(log, m, n) ==
    IF n.transitions # m.transitions THEN Append(log, Shown(n)) ELSE log

\* the final revision's toggleMenu, called at a click and served by the
\* paint at time currentTime
ThrottledToggle(m, currentTime, lastTime) ==
    IF IntervalElapsed(currentTime, lastTime, MenuFps)
    THEN ToggleBody(m)
    ELSE m

\* a toggle activation `wait` ms after the latest paint, painted `delay` ms
\* later
PairToggle(wait, delay) ==
    LET click == mnFrameTime + wait
        paint == click + delay
        ran == IntervalElapsed(paint, mnLastTime, MenuFps)
        final == ThrottledToggle(MenuRec, paint, mnLastTime)
        first == ToggleClickFirst(prFirst)
    IN /\ prEvents < MaxPairEvents
       /\ prToggles >= 1 => (click - prClickTime) * MenuFps >= 1000
       /\ prEvents' = prEvents + 1
       /\ prToggles' = prToggles + 1
       /\ prClickTime' = click
       /\ mnFrameTime' = paint
       /\ mnLastTime' = IF ran THEN paint ELSE mnLastTime
       /\ SetMenuRec(final)
       /\ mnEvent' = MenuEvent(IF ran THEN "toggle" ELSE "dropped", "")
       /\ prFirst' = first
       /\ prLogFinal' = Logged(prLogFinal, MenuRec, final)
       /\ prLogFirst' = Logged(prLogFirst, prFirst, first)
       /\ UNCHANGED <<mnRevision, mnHasButton, mnDisplay, mnRequestId,
                      mnFrames, mnClicks, mnEscapes>>
       /\ UNCHANGED <<varsSections, varsThrottle, varsDebounce, varsBatch,
                      varsRipple, varsStartup, varsHandlers>>
       /\ UNCHANGED varsBesidePair

\* a keydown event on the document, delivered to both keydown listeners
PairKeydown(key) ==
    LET final == KeydownHandler(MenuRec, key)
        first == IF EscapeCloses(key, prFirst.dataNav = "open")
                 THEN closeMenu(prFirst) ELSE prFirst
    IN /\ prEvents < MaxPairEvents
       /\ prEvents' = prEvents + 1
       /\ SetMenuRec(final)
       /\ mnEvent' = MenuEvent("keydown", key)
       /\ prFirst' = first
       /\ prLogFinal' = Logged(prLogFinal, MenuRec, final)
       /\ prLogFirst' = Logged(prLogFirst, prFirst, first)
       /\ UNCHANGED <<prClickTime, prToggles>>
       /\ UNCHANGED <<mnRevision, mnHasButton, mnDisplay, mnRequestId,
                      mnLastTime, mnFrameTime, mnFrames, mnClicks, mnEscapes>>
       /\ UNCHANGED <<varsSections, varsThrottle, varsDebounce, varsBatch,
                      varsRipple, varsStartup, varsHandlers>>
       /\ UNCHANGED varsBesidePair

IdlePair ==
    /\ prFirst = [isOpen |-> FALSE, dataNav |-> "closed", isOpened |-> FALSE,
                  aria |-> "Open menu", timeline |-> EmptyTimeline,
                  transitions |-> 0]
    /\ prClickTime = 0
    /\ prEvents = 0
    /\ prToggles = 0
    /\ prLogFirst = <<>>
    /\ prLogFinal = <<>>

\* both menus as their setup leaves them on a page whose nav is not marked
\* open: the final revision labels the button "Open menu", the first one
\* only a button that has no aria-label of its own.  The page has been up
\* for longer than one throttle interval.
InitPairState ==
    /\ mnRevision = "script"
    /\ mnHasButton \in BOOLEAN
    /\ mnIsOpen = FALSE
    /\ mnDataNav \in {"", "closed"}
    /\ mnIsOpened = FALSE
    /\ mnAria = IF mnHasButton THEN "Open menu" ELSE ""
    /\ mnDisplay = "none"
    /\ mnTimeline = EmptyTimeline
    /\ mnRequestId = Null
    /\ mnLastTime = 0
    /\ mnFrameTime = (1000 \div MenuFps) + 1
    /\ mnFrames = 0
    /\ mnClicks = <<>>
    /\ mnEscapes = 0
    /\ mnTransitions = 0
    /\ mnEvent = [type |-> "none", key |-> "", wasOpen |-> FALSE]
    /\ \E label \in MarkupLabels :
          prFirst = [isOpen |-> FALSE, dataNav |-> mnDataNav,
                     isOpened |-> FALSE,
                     aria |-> IF ~mnHasButton THEN ""
                              ELSE IF label = "" THEN "Open menu" ELSE label,
                     timeline |-> EmptyTimeline, transitions |-> 0]
    /\ prClickTime = 0
    /\ prEvents = 0
    /\ prToggles = 0
    /\ prLogFirst = <<>>
    /\ prLogFinal = <<>>

NextPair ==
    \/ \E wait \in PairWaits, delay \in PairPaintDelays :
          PairToggle(wait, delay)
    \/ \E key \in Keys : PairKeydown(key)

(***************************************************************************)
(* The specifications.                                                     *)
(***************************************************************************)
IdleUtils == IdleThrottle /\ IdleDebounce /\ IdleBatch

IdleLate == IdleQs /\ IdleResize /\ IdleBoot /\ IdlePair

IdleUi ==
    IdleMenu /\ IdleRipple /\ IdleStartup /\ IdleHandlers /\ IdleLate

InitSections ==
    InitSectionsState /\ IdleThrottle /\ IdleDebounce /\ IdleBatch /\ IdleUi

InitThrottle ==
    IdleSections /\ InitThrottleState /\ IdleDebounce /\ IdleBatch /\ IdleUi

InitDebounce ==
    IdleSections /\ IdleThrottle /\ InitDebounceState /\ IdleBatch /\ IdleUi

InitBatch ==
    IdleSections /\ IdleThrottle /\ IdleDebounce /\ InitBatchState /\ IdleUi

InitMenu ==
    /\ IdleSections /\ IdleUtils
    /\ InitMenuState /\ IdleRipple /\ IdleStartup /\ IdleHandlers
    /\ IdleLate

InitRipple ==
    /\ IdleSections /\ IdleUtils
    /\ IdleMenu /\ InitRippleState /\ IdleStartup /\ IdleHandlers
    /\ IdleLate

InitStartup ==
    /\ IdleSections /\ IdleUtils
    /\ IdleMenu /\ IdleRipple /\ InitStartupState /\ IdleHandlers
    /\ IdleLate

InitHandlers ==
    /\ IdleSections /\ IdleUtils
    /\ IdleMenu /\ IdleRipple /\ IdleStartup /\ InitHandlersState
    /\ IdleLate

InitQs ==
    /\ IdleSections /\ IdleUtils
    /\ IdleMenu /\ IdleRipple /\ IdleStartup /\ IdleHandlers
    /\ InitQsState
    /\ IdleResize
    /\ IdleBoot
    /\ IdlePair

InitResize ==
    /\ IdleSections /\ IdleUtils
    /\ IdleMenu /\ IdleRipple /\ IdleStartup /\ IdleHandlers
    /\ InitResizeState
    /\ IdleQs
    /\ IdleBoot
    /\ IdlePair

InitBoot ==
    /\ IdleSections /\ IdleUtils
    /\ IdleMenu /\ IdleRipple /\ IdleStartup /\ IdleHandlers
    /\ InitBootState
    /\ IdleQs
    /\ IdleResize
    /\ IdlePair

InitPair ==
    /\ IdleSections /\ IdleUtils
    /\ IdleRipple /\ IdleStartup /\ IdleHandlers
    /\ InitPairState
    /\ IdleQs
    /\ IdleResize
    /\ IdleBoot

SpecThrottle == InitThrottle /\ [][NextThrottle]_vars

SpecDebounce == InitDebounce /\ [][NextDebounce]_vars

SpecBatch == InitBatch /\ [][NextBatch]_vars

\* the host runs every animation frame that has been requested
BatchFairness == WF_vars(ProcessNextFrame)

SpecBatchLive == InitBatch /\ [][NextBatch]_vars /\ BatchFairness

SpecSections == InitSections /\ [][NextSections]_vars

SpecMenu == InitMenu /\ [][NextMenu]_vars

SpecRipple == InitRipple /\ [][NextRipple]_vars

SpecStartup == InitStartup /\ [][NextStartup]_vars

SpecQs == InitQs /\ [][NextQs]_vars

SpecPair == InitPair /\ [][NextPair]_vars

SpecBoot == InitBoot /\ [][NextBoot]_vars

SpecResize == InitResize /\ [][NextResize]_vars

SpecHandlers == InitHandlers /\ [][NextHandlers]_vars

(***************************************************************************)
(* Claims about section initialisation, cleanup and the metrics.           *)
(***************************************************************************)
TimelinesOf(s) == {t \in timelines : t[1] = s}

Cached(s) == animations[s] # NoTimeline

UnregisteredSections == Sections \ RegisteredSections(revision)

\* C1: section initialisation is idempotent.  Whatever attempts are made on
\* a section (intersection entries, batch onEnter callbacks, repeated
\* setupScrollTrigger/setupAnimation calls, several in one callback), at
\* most one timeline is ever constructed for it, its handler runs at most
\* once, and the cache holds an entry for it exactly when that timeline
\* exists, the entry being that first timeline and no other.
C1_InitIdempotent ==
    \A s \in Sections :
        /\ Cardinality(TimelinesOf(s)) <= 1
        /\ handlerCalls[s] = Cardinality(TimelinesOf(s))
        /\ Cached(s) <=> TimelinesOf(s) # {}
        /\ Cached(s) => animations[s] = <<s, 1>>

\* C1 witness: a section was initialised and then attempted again.
C1_Witness ==
    \E s \in Sections :
        /\ s \in reattempted
        /\ animations[s] = <<s, 1>>
        /\ TimelinesOf(s) = {<<s, 1>>}

\* C2 as claimed: in observer mode every registered section's handler has
\* run at most once, and the section is registered with an observer if and
\* only if its handler has not yet run.
C2_OneShotObserver ==
    (revision = "script" /\ Strategy = "observer") =>
        \A o \in DOMAIN observers :
            \A s \in RegisteredSections("script") :
                /\ handlerCalls[s] <= 1
                /\ s \in observers[o].targets <=> handlerCalls[s] = 0

\* C3 as claimed: once initialisation has run, a section whose kind is not
\* in the registry has had no handler run and no timeline constructed,
\* nothing was thrown, and the section is marked visible.
C3_UnknownKindVisible ==
    (initRuns >= 1 /\ lastCall = "initBody") =>
        \A s \in UnregisteredSections :
            /\ thrown = "none"
            /\ handlerCalls[s] = 0
            /\ TimelinesOf(s) = {}
            /\ visibility[s] = "visible"

\* C4 as claimed: after the cleanup entry point nothing was thrown, every
\* observer is disconnected, every scroll trigger is killed and the
\* animation, timeline, observer and DOM caches are empty.
C4_CleanupCompletes ==
    lastCall = "cleanup" =>
        /\ thrown = "none"
        /\ triggers = {}
        /\ \A o \in DOMAIN observers : observers[o].targets = {}
        /\ \A s \in Sections : ~Cached(s)
        /\ cacheTimelines = {}
        /\ cacheObservers = {}
        /\ domCache = {}

\* C5 as claimed: the metrics report gives the number of sections in the
\* animation cache, of entries in cache.timelines and in cache.observers.
C5_MetricsCounts ==
    lastCall = "metrics" =>
        /\ metrics.animationCount =
              Num(Cardinality({s \in Sections : Cached(s)}))
        /\ metrics.timelineCount = Num(Cardinality(cacheTimelines))
        /\ metrics.observerCount = Num(Cardinality(cacheObservers))

(***************************************************************************)
(* Claims about utils.rafThrottle.                                         *)
(***************************************************************************)
\* C6 as claimed: the calls made before a paint are coalesced into one
\* pending frame request, and a callback run at that paint gets the
\* arguments of the most recent of those calls.
C6_LatestArguments ==
    /\ Len(rafQueue) <= 1
    /\ \A i \in DOMAIN execLog : execLog[i].args = execLog[i].latestArgs

\* C7: however many calls are made within one frame, at most one frame
\* request is pending at any time, the callback never runs before the paint
\* that follows the call that requested it, and it runs at most once per
\* paint.
C7_OneCallbackPerFrame ==
    /\ Len(rafQueue) <= 1
    /\ (thRequestId = Null) <=> (rafQueue = <<>>)
    /\ \A i \in DOMAIN execLog : execLog[i].frame > execLog[i].requestedIn
    /\ \A i, j \in DOMAIN execLog :
          i # j => execLog[i].frame # execLog[j].frame

\* C7 witness: several calls were made within one frame and the callback
\* ran once at the next paint.
C7_Witness ==
    \E i \in DOMAIN execLog :
        /\ execLog[i].coalesced >= 2
        /\ execLog[i].frame = execLog[i].requestedIn + 1

\* C8: in the final revision the frame timestamps of two consecutive
\* executions of the callback are at least 1000 / fps ms apart.
C8_MinimumSpacing ==
    thRevision = "script" =>
        \A i \in DOMAIN execLog :
            i > 1 => (execLog[i].time - execLog[i - 1].time) * thFps >= 1000

\* C8 witness: the callback ran, a later paint came too early for it to
\* run again, and it ran again at a paint after that.
C8_Witness ==
    /\ thRevision = "script"
    /\ \E i \in DOMAIN execLog :
          /\ i > 1
          /\ execLog[i].frame > execLog[i - 1].frame + 1

(***************************************************************************)
(* Claims about utils.debounce.                                            *)
(***************************************************************************)
\* call i is the last of its burst: no call follows within less than wait
BurstEnd(i) ==
    i = Len(dbCalls) \/ dbCalls[i + 1].time - dbCalls[i].time >= dbWait

RunsFor(i) == {k \in DOMAIN dbLog : dbLog[k].call = i}

\* C9: in trailing mode at most one timer is pending; func never runs for a
\* call that is followed by another one less than wait later; for the last
\* call of a burst func runs exactly once (it has run, or its timer is
\* still pending), wait after that call and not earlier, with that call's
\* arguments.
C9_DebounceTrailing ==
    ~dbImmediate =>
        /\ Cardinality(dbTimers) <= 1
        /\ \A i \in DOMAIN dbCalls :
              /\ Cardinality(RunsFor(i)) <= 1
              /\ ~BurstEnd(i) => RunsFor(i) = {}
              /\ BurstEnd(i) =>
                    (RunsFor(i) = {} <=> \E tm \in dbTimers : tm.id = i)
              /\ \A k \in RunsFor(i) :
                    /\ dbLog[k].time = dbCalls[i].time + dbWait
                    /\ dbLog[k].args = dbCalls[i].args

\* C9 witness: a burst of two calls with different arguments, less than
\* wait apart at different times, after which func has run for the second.
C9_Witness ==
    /\ ~dbImmediate
    /\ \E i \in DOMAIN dbCalls :
          /\ i > 1
          /\ dbCalls[i].time > dbCalls[i - 1].time
          /\ dbCalls[i].time - dbCalls[i - 1].time < dbWait
          /\ dbCalls[i].args # dbCalls[i - 1].args
          /\ RunsFor(i) # {}

(***************************************************************************)
(* Claims about utils.processBatch.                                        *)
(***************************************************************************)
\* C10: the items processor has been called on are, in call order, a
\* prefix of the input list: each item at most once, in input order.
C10_VisitsPrefix ==
    /\ Len(pbVisited) <= Len(pbItems)
    /\ pbVisited = SubSeq(pbItems, 1, Len(pbVisited))

\* C10 witness: a list was processed to its end in several slices.
C10_Witness ==
    /\ Len(pbSlices) >= 2
    /\ ~pbPending
    /\ pbVisited = pbItems

\* ceil(n / b)
CeilDiv(n, b) == (n + b - 1) \div b

\* processBatch has returned and no frame callback of it is outstanding
BatchDone == pbStarted /\ ~pbPending

\* C23: processBatch on a list of n items with batchSize >= 1 terminates.
\* It processes exactly ceil(n / batchSize) slices of at most batchSize
\* items each, requests one animation frame between consecutive slices and
\* none after the last, and visits every item exactly once, in order; for
\* n = 0 it neither calls the processor nor requests a frame.
C23_BatchTerminates ==
    /\ pbStarted ~> BatchDone
    /\ [](/\ \A i \in DOMAIN pbSlices :
                 pbSlices[i] >= 1 /\ pbSlices[i] <= pbBatchSize
          /\ Len(pbSlices) >= 1 =>
                 pbRequests = Len(pbSlices) - (IF pbPending THEN 0 ELSE 1)
          /\ BatchDone =>
                 /\ Len(pbSlices) = CeilDiv(Len(pbItems), pbBatchSize)
                 /\ pbVisited = pbItems
                 /\ Len(pbItems) = 0 => (pbVisited = <<>> /\ pbRequests = 0))

\* a list of three items has been processed in slices of two: two slices,
\* the last one short, one frame request between them
C23_Witness ==
    /\ BatchDone
    /\ Len(pbItems) = 3
    /\ pbBatchSize = 2
    /\ pbSlices = <<2, 1>>
    /\ pbRequests = 1
    /\ pbVisited = pbItems

(***************************************************************************)
(* Claims about the navigation menu.                                       *)
(***************************************************************************)
\* C11: the menu state changes only when a toggle activation takes effect
\* (flipping it) or when Escape is pressed on the open menu (closing it);
\* Escape on the closed menu changes neither the state, the data-nav
\* attribute, the aria-label nor the transition timeline.
C11_MenuTransitions ==
    [][/\ MenuIsOpen' # MenuIsOpen =>
            \/ mnEvent'.type = "toggle"
            \/ /\ mnEvent'.type = "keydown"
               /\ mnEvent'.key = "Escape"
               /\ MenuIsOpen
       /\ (mnEvent'.type = "toggle" /\ mnEvent' # mnEvent) =>
            MenuIsOpen' # MenuIsOpen
       /\ (/\ mnEscapes' # mnEscapes
           /\ mnEvent'.key = "Escape"
           /\ ~MenuIsOpen) =>
            UNCHANGED <<mnIsOpen, mnDataNav, mnAria, mnTimeline>>]_vars

\* Escape has been pressed on a menu that had been opened and closed again
C11_Witness ==
    /\ mnEvent.type = "keydown"
    /\ mnEvent.key = "Escape"
    /\ ~mnEvent.wasOpen
    /\ mnTransitions >= 2
    /\ mnDataNav = "closed"

\* the second of two clicks came before the first one's open transition
\* had finished playing: in the same frame, or while tl had steps left
RapidDoubleToggle ==
    /\ Len(mnClicks) = 2
    /\ mnEscapes = 0
    /\ ~mnClicks[1].wasOpen
    /\ mnClicks[2].pending \/ mnClicks[2].inFlight
    /\ mnRequestId = Null

\* C12: starting from the closed menu, two toggle activations in rapid
\* succession leave the menu closed with data-nav = "closed".
C12_RapidToggleCloses ==
    RapidDoubleToggle => (~MenuIsOpen /\ mnDataNav = "closed")

\* C20: in the second and final revisions, once a transition has been
\* performed, the menu is open iff data-nav = "open", the button carries
\* is-opened and is labelled "Close menu"; it is closed iff data-nav =
\* "closed", is-opened is absent and the label is "Open menu".
C20_FlagsAgree ==
    (mnRevision # "first" /\ mnTransitions >= 1) =>
        /\ MenuIsOpen =>
              /\ mnDataNav = "open"
              /\ mnHasButton => (mnIsOpened /\ mnAria = "Close menu")
        /\ ~MenuIsOpen =>
              /\ mnDataNav = "closed"
              /\ mnHasButton => (~mnIsOpened /\ mnAria = "Open menu")

\* the menu has been opened, closed and opened again, and has a button
C20_Witness ==
    /\ mnRevision # "first"
    /\ mnHasButton
    /\ mnTransitions >= 3
    /\ MenuIsOpen
    /\ mnAria = "Close menu"

\* the steps tl has still to play
PendingSteps == {mnTimeline.steps[i] : i \in DOMAIN mnTimeline.steps}

\* C21: whenever the transition timeline has run to completion, the nav
\* container's display is "block" if the menu is open and "none" if it is
\* closed; an open menu never has the 'display: none' step of a close
\* transition pending.
C21_DisplayMatchesState ==
    mnTransitions >= 1 =>
        /\ mnTimeline.steps = <<>> =>
              mnDisplay = (IF MenuIsOpen THEN "block" ELSE "none")
        /\ MenuIsOpen => "displayNone" \notin PendingSteps

\* the menu was opened while a close transition was still playing, and the
\* open transition has run to completion
C21_Witness ==
    /\ mnTransitions >= 3
    /\ mnEvent.type = "play"
    /\ mnTimeline = [kind |-> "open", steps |-> <<>>]
    /\ mnRevision = "first"
    /\ mnClicks[Len(mnClicks)].inFlight
    /\ ~mnClicks[Len(mnClicks)].wasOpen
    /\ MenuIsOpen
    /\ mnDisplay = "block"

\* a paint has just happened
MenuPainted == mnFrames' = mnFrames + 1

\* C24: in the final revision, a toggle call whose frame callback fires
\* less than 1000/30 ms after the last executed toggle is discarded, not
\* deferred: that frame leaves the menu state and lastTime untouched and
\* releases the pending request, and a frame with no pending request never
\* runs the toggle; so a click on the toggle can be lost.
C24_DiscardedNotDeferred ==
    [][/\ (/\ mnRevision = "script"
            /\ MenuPainted
            /\ mnRequestId # Null
            /\ (mnFrameTime' - mnLastTime) * MenuFps < 1000) =>
               /\ mnRequestId' = Null
               /\ UNCHANGED <<mnIsOpen, mnDataNav, mnIsOpened, mnAria,
                              mnTimeline, mnTransitions, mnLastTime>>
       /\ (/\ mnRevision = "script"
            /\ MenuPainted
            /\ mnRequestId = Null) =>
               UNCHANGED <<mnIsOpen, mnDataNav, mnIsOpened, mnAria,
                           mnTimeline, mnTransitions, mnLastTime,
                           mnRequestId>>]_vars

\* the second click's frame came 17 ms after the first toggle ran: the
\* click was discarded and the menu is still open
C24_Witness ==
    /\ mnRevision = "script"
    /\ mnEvent.type = "dropped"
    /\ mnEvent.wasOpen
    /\ Len(mnClicks) = 2
    /\ mnTransitions = 1
    /\ MenuIsOpen
    /\ mnRequestId = Null
    /\ (mnFrameTime - mnLastTime) * MenuFps < 1000

\* the click that made the frame request which has just been served: the
\* last click that found no request pending
RequestingClick ==
    LET made == {i \in DOMAIN mnClicks : ~mnClicks[i].pending}
    IN CHOOSE i \in made : \A j \in made : j <= i

\* the frame callback of toggleMenu has just run
ToggleFrameServed ==
    /\ mnRevision # "first"
    /\ mnEvent.type \in {"toggle", "dropped"}

\* C25: a toggle activation made while the menu is open leaves the menu
\* closed once that activation's frame callback has run, whatever happens
\* between the click and the frame (an Escape press in particular).
C25_ToggleWhileOpenCloses ==
    (ToggleFrameServed /\ mnClicks[RequestingClick].wasOpen) => ~MenuIsOpen

(***************************************************************************)
(* Claims about the hover ripple.                                          *)
(***************************************************************************)
\* C13: when a pointer-leave follows a pointer-enter whose animation is
\* still in flight, the leave animation overwrites it: afterwards exactly
\* one clip-path animation is active and it targets radius 0%.
C13_LeaveOverwritesEnter ==
    (rpLast.type = "leave" /\ "141.4%" \in rpLast.inFlight) =>
        /\ Cardinality(rpTweens) = 1
        /\ \A t \in rpTweens : t.radius = "0%"

\* the pointer has just left while the enter tween was running
C13_Witness ==
    /\ rpLast.type = "leave"
    /\ "141.4%" \in rpLast.inFlight
    /\ \E t \in rpTweens : t.radius = "0%"

\* C19: for every sequence of pointer-enter and pointer-leave events on
\* one wrapper, starting a ripple animation cancels the one in flight, so
\* at most one clip-path animation is active at any instant.
C19_OneActiveRipple == Cardinality(rpTweens) <= 1

\* a ripple animation has just been started
RippleStarted == rpNextId' # rpNextId

\* C28: with the delegated wiring, the collapse is started only when the
\* pointer leaves the wrapper itself and the expansion only when it enters
\* the wrapper from outside; pointer movement between the wrapper and its
\* descendants, the pointer staying inside the wrapper, starts no animation.
C28_NoAnimationInsideWrapper ==
    [][rpWiring = "delegated" =>
          /\ (RippleStarted /\ rpLast'.type = "leave") =>
                 (rpInside /\ ~rpInside')
          /\ (RippleStarted /\ rpLast'.type = "enter") =>
                 (~rpInside /\ rpInside')
          /\ (rpInside /\ rpInside') => ~RippleStarted]_vars

(***************************************************************************)
(* Claims about startup.                                                   *)
(***************************************************************************)
\* C14: when window.gsap is absent, init (second and final revision) adds
\* gsap-not-found to the document element, does not throw, and initialises
\* nothing: no listener, no observer, no scroll trigger, no section touched.
C14_GsapAbsentSkipsInit ==
    (~gsapPresent /\ initCalls >= 1) =>
        /\ "gsap-not-found" \in docClasses
        /\ lastCall = "init" => thrown = "none"
        /\ pendingInits = 0
        /\ initRuns = 0
        /\ \A ev \in EventTypes : listeners[ev] = 0
        /\ observers = <<>>
        /\ cacheObservers = {}
        /\ triggers = {}
        /\ timelines = {}
        /\ menuTimelines = 0
        /\ \A s \in Sections :
              /\ visibility[s] = ""
              /\ handlerCalls[s] = 0
              /\ ~Cached(s)

\* init has returned on a page without the library
C14_Witness ==
    /\ ~gsapPresent
    /\ initCalls >= 1
    /\ lastCall = "init"
    /\ "gsap-not-found" \in docClasses

\* the strategy C15 names for the environment the script was loaded in
ClaimedStrategy ==
    IF \/ /\ suHardwareConcurrency # Undefined
          /\ suHardwareConcurrency[2] <= 4
       \/ suReducedMotion
    THEN "simple"
    ELSE IF suUseIO THEN "observer"
    ELSE "scrollTrigger"

\* C15: each init starts exactly one strategy: the simple one if the device
\* is low-end (hardwareConcurrency present and <= 4) or reduced motion is
\* preferred, else the observer one if IntersectionObserver is supported,
\* else the scroll-trigger one; a missing hardwareConcurrency is not low-end.
C15_StrategySelection ==
    /\ Len(suStarted) = suInits
    /\ \A i \in 1..Len(suStarted) : suStarted[i] = {ClaimedStrategy}

\* init has run where hardwareConcurrency is missing and motion is allowed
C15_Witness ==
    /\ Len(suStarted) >= 1
    /\ suHardwareConcurrency = Undefined
    /\ ~suReducedMotion
    /\ suStarted[1] # {"simple"}

\* the init body has just run on the low-end profile of the final revision
LowEndStarted ==
    /\ revision = "script"
    /\ lowEnd
    /\ initRuns >= 1
    /\ lastCall = "initBody"

\* C16 as claimed: on the low-end profile the handler registered for the
\* kind of every data-animation-trigger section is invoked during startup,
\* without waiting for a visibility or scroll event.
C16_EagerHandlers ==
    LowEndStarted =>
        \A s \in RegisteredSections("script") : handlerCalls[s] >= 1

\* C16 as amended: on the low-end profile startup reveals every
\* data-animation-trigger section and gives it a fade tween bound to a
\* once-only scroll trigger of its own; no kind handler is invoked, no
\* timeline is constructed and no section enters the animation cache.
C16_SimpleFade ==
    LowEndStarted =>
        \A s \in Sections :
            /\ visibility[s] = "visible"
            /\ [section |-> s, type |-> "tween", gen |-> initRuns] \in triggers
            /\ handlerCalls[s] = 0
            /\ TimelinesOf(s) = {}
            /\ ~Cached(s)

\* the init body has run twice on the low-end profile
C16_Witness ==
    /\ LowEndStarted
    /\ initRuns >= 2
    /\ \A s \in Sections : visibility[s] = "visible"

(***************************************************************************)
(* Claims about the handlers.                                              *)
(***************************************************************************)
TextRevealSteps ==
    {i \in 1..Len(hdSteps) :
        hdSteps[i].helper \in {"splitHeading", "splitParagraph"}}

\* C17: when reduced motion is preferred, every splitHeading /
\* splitParagraph call that adds a step adds the single-element fade step,
\* and SplitText.create is never called.
C17_ReducedMotionFades ==
    hdReducedMotion =>
        /\ hdSplitCreates = 0
        /\ \A i \in TextRevealSteps :
              /\ hdSteps[i].kind = "fade"
              /\ \/ hdSteps[i].target \in {<<el>> : el \in Headings \ {Null}}
                 \/ hdSteps[i].target \in ParagraphLists

\* under reduced motion a heading and a paragraph list have been revealed
C17_Witness ==
    /\ hdReducedMotion
    /\ \E i, j \in TextRevealSteps :
          /\ hdSteps[i].helper = "splitHeading"
          /\ hdSteps[j].helper = "splitParagraph"

\* the FAQ handler has run on a section with n accordion items and the
\* timeline holds n reveals, item i+1 starting at offset + 0.15 * i
FaqStepsFrom(offset) ==
    /\ Len(hdSteps) = hdFaq.items
    /\ \A i \in 1..Len(hdSteps) :
          /\ hdSteps[i].kind = "reveal"
          /\ hdSteps[i].target = <<i>>
          /\ hdSteps[i].start = offset + 15 * (i - 1)

\* C18 as claimed: a FAQ section with n accordion items gets exactly n
\* reveal steps, one per item in document order, the i-th starting at
\* 0.15 * i seconds with the first at offset 0; with no item, no step.
C18_FaqStepsFromZero == hdFaq.handled => FaqStepsFrom(0)

\* C18 as amended: the steps start at d + 0.15 * i, where d is 0 in the
\* final revision and, in the first revision, the section's
\* data-animation-delay on a large screen and 0 otherwise.
C18_FaqStepsFromDelay ==
    hdFaq.handled =>
        FaqStepsFrom(IF hdRevision = "first" /\ hdFaq.largeScreen
                     THEN hdFaq.delayAttr ELSE 0)

\* a FAQ section with three items has been handled
C18_Witness ==
    /\ hdFaq.handled
    /\ hdFaq.items = 3
    /\ Len(hdSteps) = 3
    /\ hdSteps[3].start > hdSteps[2].start

(***************************************************************************)
(* Claims about utils.qs.                                                  *)
(***************************************************************************)
\* C30: utils.qs(selector, parent, true) returns the element an uncached
\* parent.querySelector(selector) on the given parent returns; for a
\* parent other than the document the element returned is a descendant of
\* that parent; a lookup that finds nothing is not cached.
C30_QsReturnsOwnMatch ==
    /\ (qsCalls >= 1 /\ qsLast.useCache) =>
          /\ qsLast.element = querySelector(qsLast.parent, qsLast.selector)
          /\ (qsLast.parent # "document" /\ qsLast.element # NoElement) =>
                 qsLast.element.region = qsLast.parent
    /\ \A p \in qsDomCache : p[2] # NoElement

(***************************************************************************)
(* Claims about the resize handlers.                                       *)
(***************************************************************************)
\* the events that end a burst: no later event less than 250 ms after them
BurstEnds ==
    {i \in DOMAIN rzEvents :
        i = Len(rzEvents) \/ rzEvents[i + 1] - rzEvents[i] >= ResizeWait}

\* the instants the bursts so far have settled at
SettleTimes ==
    {rzEvents[i] + ResizeWait : i \in BurstEnds} \cap 0..rzNow

\* how often t occurs in the sequence of times log
TimesAt(log, t) == Cardinality({i \in DOMAIN log : log[i] = t})

\* a burst is under way: an event has come and 250 ms have not yet passed
InBurst ==
    /\ rzEvents # <<>>
    /\ rzNow < rzEvents[Len(rzEvents)] + ResizeWait

\* the latest burst has settled and its timeouts have run
Settled ==
    /\ rzEvents # <<>>
    /\ ~InBurst
    /\ ~ResizeTimerDue

\* log holds k runs at every settle time reached and no run at any other
\* time
RunsPerSettle(log, k) ==
    /\ \A i \in DOMAIN log : log[i] \in SettleTimes
    /\ \A t \in SettleTimes :
          (t < rzNow \/ ~ResizeTimerDue) => TimesAt(log, t) = k

\* C26: for a burst of resize events less than 250 ms apart, the body
\* carries is-resizing from the first event until 250 ms after the last,
\* ScrollTrigger.refresh and the DOM-cache clear each run exactly once,
\* 250 ms after the last event and never during the burst, and the DOM
\* query cache is empty after that point.
C26_ResizeSettlesOnce ==
    /\ InBurst => rzClass
    /\ Settled => (~rzClass /\ rzDomCache = {})
    /\ RunsPerSettle(rzRefreshes, 1)
    /\ RunsPerSettle(rzClears, 1)

\* C26 as the code has it: every registered handler (one per run of
\* init's body) runs ScrollTrigger.refresh exactly once per burst, 250 ms
\* after the burst's last event and never during the burst; in the final
\* revision the body carries is-resizing from the first event until then
\* and every handler also clears the DOM query cache at that instant,
\* leaving it empty; the second revision sets no class and clears no cache.
C26_ResizeSettlesPerHandler ==
    /\ RunsPerSettle(rzRefreshes, rzHandlers)
    /\ rzRevision = "script" =>
          /\ InBurst => rzClass
          /\ Settled => (~rzClass /\ rzDomCache = {})
          /\ RunsPerSettle(rzClears, rzHandlers)
    /\ rzRevision = "jamboree" => (~rzClass /\ rzClears = <<>>)

\* a burst of three events, each less than 250 ms after the one before,
\* has settled 250 ms after the last one, in the final revision
C26_Witness ==
    /\ rzRevision = "script"
    /\ Len(rzEvents) = 3
    /\ rzEvents[1] < rzEvents[2]
    /\ rzEvents[2] < rzEvents[3]
    /\ BurstEnds = {3}
    /\ Settled
    /\ rzNow = rzEvents[3] + ResizeWait
    /\ Len(rzRefreshes) = rzHandlers
    /\ rzDomCache = {}

(***************************************************************************)
(* Claims about startup timing.                                            *)
(***************************************************************************)
\* C22: in the first revision, when window.gsap is absent, nothing that
\* runs after the gsap-not-found class has been set (the menu setup, the
\* font-ready section setup) calls into the animation library or raises an
\* exception.
C22_FirstRevisionSkipsAll ==
    (btRevision = "first" /\ "gsap-not-found" \in btClasses) =>
        /\ btLibCalls = 0
        /\ \A i \in DOMAIN btThrown : ~btThrown[i].flagged

\* C27: in the second and final revisions, with the library present, each
\* init call runs the post-font body exactly once, at whichever comes
\* first of fonts-ready and the timeout (3000 ms / 2000 ms after the call);
\* the body has run once the timeout has passed even if fonts never become
\* ready, and every section of a known kind is then set up; the later of
\* the two events does not run the body again.
C27_BodyOncePerInit ==
    (btRevision # "first" /\ btGsap) =>
        /\ Len(btInits) = btInitCalls
        /\ \A i \in DOMAIN btInits :
              LET r == btInits[i]
              IN /\ r.due = r.at + FontTimeout(btRevision)
                 /\ r.bodyRuns <= 1
                 /\ r.bodyRuns = 1 <=> r.settled
                 /\ r.settled <=> (r.fired \/ btFontsReady \/ ~btFontsApi)
                 /\ r.bodyRuns = 1 =>
                       /\ r.at <= r.bodyAt
                       /\ r.bodyAt <= r.due
                       /\ btSetUp = btSections
                 /\ (r.bodyRuns = 1 /\ r.bodyAt < r.due) =>
                       (btFontsReady \/ ~btFontsApi)
                 /\ btNow > r.due => r.bodyRuns = 1

\* fonts became ready only after the timeout of an init call had run its
\* body: the body ran at the timeout, once
C27_Witness ==
    /\ btRevision = "script"
    /\ btGsap
    /\ btSections >= 1
    /\ btInits # <<>>
    /\ btInits[1].fired
    /\ btInits[1].bodyAt = btInits[1].due
    /\ btInits[1].bodyRuns = 1
    /\ btFontsReady
    /\ btNow > btInits[1].due
    /\ btSetUp = btSections

(***************************************************************************)
(* Claims about the menu across revisions.                                 *)
(***************************************************************************)
\* C29: for every sequence of toggle activations and Escape presses on a
\* nav that is not marked open, each event issued only after the frame
\* callback of the preceding toggle has run and consecutive toggles at
\* least 1000/30 ms apart, the first and the final revision produce the
\* same sequence of data-nav and aria-label values.
C29_MenusEquivalent ==
    /\ prLogFirst = prLogFinal
    /\ prEvents >= 1 => prFirst.dataNav = mnDataNav

====
